---- MODULE Spec2Model ----
(***************************************************************************)
(* The operation coordinator of the RGB multisig bridge: the database      *)
(* tables, the content-addressed files directory, the process-wide write   *)
(* lock and the four mutating handlers of src/src/routes.rs.               *)
(***************************************************************************)
EXTENDS Integers, Sequences, FiniteSets, Bags, TLC

(* ------------------------------ bounds -------------------------------- *)

\* number of configured cosigners (cosigner idx values are 1..NumCosigners)
NumCosigners == 3

\* posts are no longer issued once this many operations exist
MaxOps == 2

\* bumps are no longer issued once a counter has reached this value
MaxAddr == 1

\* post requests come from the cosigners 1..MaxPosters (every cosigner
\* responds and marks)
MaxPosters == 2

\* the bound on the number of operations in the longer histories of SpecSeq
MaxOpsSeq == 3

\* operations posted and clients in the histories with detached tasks
MaxOpsServe == 2

MaxClients == 2

\* operations posted in the histories with authenticated requests
MaxOpsAuth == 1

\* how far the counters move from their start in the histories of bumps
MaxAddrBump == 3

(* ------------------------- program constants -------------------------- *)

\* Option<T>: None, or Some(x) holding x
None == <<>>

Some(x) == <<x>>

\* the value held by a Some
Unwrap(o) == o[1]

\* "no error" in the err field of a parse or a transaction
NULL == "null"

MIN_COSIGNERS == 2

\* OperationStatus
Pending == 1

Approved == 2

Discarded == 3

\* OperationType
CreateUtxos == 1

Issuance == 2

SendRgb == 3

SendBtc == 4

Inflation == 5

BlindReceive == 6

WitnessReceive == 7

\* a list that lacks Issuance
AUTO_APPROVED_OPS_NoIssuance == {BlindReceive, WitnessReceive}

AUTO_APPROVED_OPS == {Issuance, BlindReceive, WitnessReceive}

\* FileType
Consignment == 1

Media == 2

OperationData == 3

Psbt == 4

\* OperationType::try_from(u8)
OperationTypeTryFrom(value) ==
    IF value \in {CreateUtxos, Issuance, SendRgb, SendBtc, Inflation,
                  BlindReceive, WitnessReceive}
    THEN Some(value)
    ELSE None

\* get_threshold_for_operation
get_threshold_for_operation(op_type, threshold_vanilla, threshold_colored) ==
    CASE op_type \in {CreateUtxos, SendBtc} -> Some(threshold_vanilla)
      [] op_type \in {SendRgb, Inflation} -> Some(threshold_colored)
      [] OTHER -> None

\* the cosigner idx values (keys of AppState.cosigners_by_idx)
Cosigners == 1..NumCosigners

\* the cosigners that issue post requests
Posters == {c \in Cosigners : c <= MaxPosters}

\* utils::now(): the wall clock is read as one opaque instant
now == 1

\* compute_file_id: the hex SHA-256 of the bytes, taken as collision free
compute_file_id(bytes) == <<"sha256", bytes>>

(* ------------------------------- errors ------------------------------- *)

Ok == "Ok"

ErrPanic == "panic"

ErrDatabase == "Database"

ErrIO == "IO"

ErrInvalidCount == "InvalidCount"

ErrInvalidOperationType == "InvalidOperationType"

ErrOperationNotFound == "OperationNotFound"

ErrUnexpectedOverflow == "Unexpected(address index overflow)"

ErrParseMultipart == "InvalidRequest(failed to parse multipart)"

ErrInvalidFileType == "InvalidRequest(invalid file type)"

ErrEmptyFile == "InvalidRequest(empty file)"

ErrMoreThanOnePsbt == "InvalidRequest(more than one PSBT provided)"

ErrUnexpectedField == "InvalidRequest(unexpected field)"

ErrNoFiles == "InvalidRequest(no files nor PSBT provided)"

ErrNoOperationType == "InvalidRequest(operation type not provided)"

ErrMissingBody == "InvalidRequest(missing request body)"

ErrAckRequiresPsbt == "InvalidRequest(ACK requires PSBT file)"

ErrStillPending == "CannotPostNewOperation(another operation is still pending)"

ErrUnprocessed == "CannotPostNewOperation(initiator has unprocessed operations)"

ErrOwnOperation == "CannotRespondToOperation(cannot respond to your own operation)"

ErrNotPending == "CannotRespondToOperation(operation is not pending)"

ErrAlreadyResponded == "CannotRespondToOperation(already responded to this operation)"

ErrNotNext == "CannotRespondToOperation(operation is not the next one to be processed)"

ErrMarkPending == "CannotMarkOperationProcessed(a pending operation cannot be marked as processed)"

ErrAlreadyMarked == "CannotMarkOperationProcessed(already marked this operation as processed)"

\* the CannotRespondToOperation kind of APIError
CannotRespondToOperation == {ErrOwnOperation, ErrNotPending, ErrAlreadyResponded, ErrNotNext}

\* the CannotMarkOperationProcessed kind of APIError
CannotMarkOperationProcessed == {ErrMarkPending, ErrAlreadyMarked}

\* the CannotPostNewOperation kind of APIError
CannotPostNewOperation == {ErrStillPending, ErrUnprocessed}

(* ------------------------------- state -------------------------------- *)

VARIABLES
    config,               \* the Config row: the two thresholds
    operation,            \* Operation table: sequence, idx = position
    op_file,              \* OpFile table: sequence, idx = position
    cosigner_op_status,   \* CosignerOpStatus table: bag of rows (idx abstracted)
    next_address_index,   \* the NextAddressIndex row
    files_dir,            \* file ids present in <app_dir>/files
    write_lock,           \* AppState.write_lock: 0 when free, else the holder
    task,                 \* detached handler tasks, one slot per cosigner
    server,               \* the process: "running", "draining" or "exited"
    seed,                 \* the numbers of Config and NextAddressIndex rows and
                          \* the xpubs of the Cosigner rows
    app_params            \* AppParams: the configuration the process was launched with

vars == <<config, operation, op_file, cosigner_op_status, next_address_index,
          files_dir, write_lock, task, server, seed, app_params>>

\* the tables as one value, as a transaction sees them
Database == [operation |-> operation, op_file |-> op_file,
             cosigner_op_status |-> cosigner_op_status,
             next_address_index |-> next_address_index]

(* --------------------------- database queries ------------------------- *)

\* the rows of the CosignerOpStatus table, each listed once
StatusRows(db) == BagToSet(db.cosigner_op_status)

\* a lookup that ignores idx and returns the newest operation
get_operation_by_idx_Last(db, idx) ==
    IF Len(db.operation) > 0 THEN Some(db.operation[Len(db.operation)]) ELSE None

\* get_operation_by_idx
get_operation_by_idx(db, idx) ==
    IF idx \in 1..Len(db.operation) THEN Some(db.operation[idx]) ELSE None

\* get_cosigner_op_status_entry: the rows the query matches (.one() takes one)
get_cosigner_op_status_entry(db, cosigner_idx, operation_idx) ==
    {r \in StatusRows(db) : r.cosigner_idx = cosigner_idx /\ r.operation_idx = operation_idx}

\* iter_cosigner_op_status_by_operation_idx: the bag of the operation's rows
iter_cosigner_op_status_by_operation_idx(db, operation_idx) ==
    LET rows == {r \in StatusRows(db) : r.operation_idx = operation_idx}
    IN  [r \in rows |-> CopiesIn(r, db.cosigner_op_status)]

SetMax(S) == CHOOSE x \in S : \A y \in S : y <= x

\* get_last_cosigner_processed_op_idx: 0 when nothing was processed
get_last_cosigner_processed_op_idx(db, cosigner_idx) ==
    LET done == {r.operation_idx : r \in {q \in StatusRows(db) :
                    q.cosigner_idx = cosigner_idx /\ q.processed_at # None}}
    IN  IF done = {} THEN 0 ELSE SetMax(done)

\* get_last_operation_idx
get_last_operation_idx(db) ==
    IF Len(db.operation) = 0 THEN None ELSE Some(Len(db.operation))

\* has_pending_operation
has_pending_operation(db) ==
    \E i \in 1..Len(db.operation) : db.operation[i].status = Pending

\* a query that looks only at the operations the cosigner initiated
has_unprocessed_operation_OwnOnly(db, cosigner_idx) ==
    \E r \in StatusRows(db) :
        /\ r.cosigner_idx = cosigner_idx
        /\ r.processed_at = None
        /\ db.operation[r.operation_idx].initiator_idx = cosigner_idx

\* a query that looks at the rows of every cosigner
has_unprocessed_operation_AnyCosigner(db, cosigner_idx) ==
    \E r \in StatusRows(db) : r.processed_at = None

\* has_unprocessed_operation
has_unprocessed_operation(db, cosigner_idx) ==
    \E r \in StatusRows(db) : r.cosigner_idx = cosigner_idx /\ r.processed_at = None

(* ------------------------ transactions and faults --------------------- *)

\* the database and I/O calls a handler makes; a fault <<name, n>> makes the
\* n-th call of that name fail, NoFault lets every call succeed
CallNames == {"begin_transaction", "set_operation", "persist_temp_file", "set_op_file",
              "set_cosigner_op_status", "update_cosigner_op_status",
              "update_operation", "update_next_address_index", "commit"}

NoFault == <<"none", 0>>

\* a transaction just begun on database db with files directory fs
TxnBegin(db, fs) ==
    [db |-> db, fs |-> fs, err |-> NULL, calls |-> [n \in CallNames |-> 0]]

\* one fallible call (`.await?`): skipped once an earlier call failed, else it
\* fails with err when the fault names it, else it leaves db2 and fs2
Call(t, fault, name, err, db2, fs2) ==
    IF t.err # NULL THEN t
    ELSE IF fault = <<name, t.calls[name] + 1>>
         THEN [t EXCEPT !.err = err, !.calls[name] = @ + 1]
         ELSE [db |-> db2, fs |-> fs2, err |-> NULL,
               calls |-> [t.calls EXCEPT ![name] = @ + 1]]

\* a handler whose writes are not in a transaction: those made before the
\* failure stay
TxnEnd_KeepPartial(db, t) == t.db

\* what the database holds once the handler returns: txn.commit() makes the
\* transaction's writes durable, a dropped DatabaseTransaction rolls them back
TxnEnd(db, t) == IF t.err = NULL THEN t.db ELSE db

\* an OpFile row inserted without the file being moved into place
StoreFile_RowOnly(t, fault, file_type, bytes, operation_idx) ==
    Call(t, fault, "set_op_file", ErrDatabase,
         [t.db EXCEPT !.op_file = Append(@, [file_id |-> compute_file_id(bytes),
                                             type |-> file_type,
                                             operation_idx |-> operation_idx])],
         t.fs)

\* the file moved into place whether or not it is already there
StoreFile_AlwaysPersist(t, fault, file_type, bytes, operation_idx) ==
    LET file_id == compute_file_id(bytes)
        t1 == Call(t, fault, "persist_temp_file", "Unexpected(failed to persist file)",
                   t.db, t.fs \cup {file_id})
    IN  Call(t1, fault, "set_op_file", ErrDatabase,
             [t1.db EXCEPT !.op_file = Append(@, [file_id |-> file_id, type |-> file_type,
                                                 operation_idx |-> operation_idx])],
             t1.fs)

\* compute_file_id, persist_temp_file unless the file exists, then set_op_file
StoreFile(t, fault, file_type, bytes, operation_idx) ==
    LET file_id == compute_file_id(bytes)
        t1 == IF file_id \in t.fs THEN t
              ELSE Call(t, fault, "persist_temp_file", "Unexpected(failed to persist file)",
                        t.db, t.fs \cup {file_id})
    IN  Call(t1, fault, "set_op_file", ErrDatabase,
             [t1.db EXCEPT !.op_file = Append(@, [file_id |-> file_id, type |-> file_type,
                                                 operation_idx |-> operation_idx])],
             t1.fs)

(* ----------------------------- post_operation ------------------------- *)

FileFieldNames == {"file_psbt", "file_media", "file_operation_data", "file_consignment",
                   "file_invalid"}

\* the file type a `file_` field names, None for an unknown one
FileTypeOfField(name) ==
    CASE name = "file_psbt" -> Some(Psbt)
      [] name = "file_media" -> Some(Media)
      [] name = "file_operation_data" -> Some(OperationData)
      [] name = "file_consignment" -> Some(Consignment)
      [] OTHER -> None

\* the multipart loop of post_operation from field i on; acc is the
\* (operation_type, files, psbt_file) collected so far
RECURSIVE PostParseFrom(_, _, _)
PostParseFrom(fields, i, acc) ==
    IF i > Len(fields) THEN acc
    ELSE LET f == fields[i] IN
         CASE f.name = "malformed" -> [acc EXCEPT !.err = ErrParseMultipart]
           [] f.name = "operation_type" ->
                IF Len(f.bytes) = 0 THEN [acc EXCEPT !.err = ErrPanic]   \* op_type[0]
                ELSE IF OperationTypeTryFrom(f.bytes[1]) = None
                     THEN [acc EXCEPT !.err = ErrInvalidOperationType]
                     ELSE PostParseFrom(fields, i + 1,
                              [acc EXCEPT !.operation_type = OperationTypeTryFrom(f.bytes[1])])
           [] f.name \in FileFieldNames ->
                IF FileTypeOfField(f.name) = None THEN [acc EXCEPT !.err = ErrInvalidFileType]
                ELSE IF Len(f.bytes) = 0 THEN [acc EXCEPT !.err = ErrEmptyFile]
                ELSE IF FileTypeOfField(f.name) = Some(Psbt)
                     THEN IF acc.psbt_file # None
                          THEN [acc EXCEPT !.err = ErrMoreThanOnePsbt]
                          ELSE PostParseFrom(fields, i + 1,
                                   [acc EXCEPT !.psbt_file = Some(f.bytes)])
                     ELSE PostParseFrom(fields, i + 1,
                              [acc EXCEPT !.files = Append(@,
                                   [type |-> Unwrap(FileTypeOfField(f.name)),
                                    bytes |-> f.bytes])])
           [] OTHER -> [acc EXCEPT !.err = ErrUnexpectedField]

\* the parsed form, with the two checks that follow the loop
PostParse(fields) ==
    LET p == PostParseFrom(fields, 1, [err |-> NULL, operation_type |-> None,
                                       files |-> <<>>, psbt_file |-> None])
    IN  IF p.err # NULL THEN p
        ELSE IF Len(p.files) = 0 /\ p.psbt_file = None THEN [p EXCEPT !.err = ErrNoFiles]
        ELSE IF p.operation_type = None THEN [p EXCEPT !.err = ErrNoOperationType]
        ELSE p

\* a post_operation without its two admission checks
PostAllowed_NoChecks(db, cosigner_idx) == NULL

\* "check if request is allowed": NULL when the post may go on
PostAllowed(db, cosigner_idx) ==
    IF has_pending_operation(db) THEN ErrStillPending
    ELSE IF has_unprocessed_operation(db, cosigner_idx) THEN ErrUnprocessed
    ELSE NULL

\* "save operation files"
RECURSIVE PostStoreFiles(_, _, _, _, _)
PostStoreFiles(t, fault, files, i, operation_idx) ==
    IF i > Len(files) THEN t
    ELSE PostStoreFiles(StoreFile(t, fault, files[i].type, files[i].bytes, operation_idx),
                        fault, files, i + 1, operation_idx)

\* rows that all carry the initiator's PSBT
PostStatusRow_PsbtForAll(idx, cosigner_idx, operation_idx, psbt_op_file_idx) ==
    [cosigner_idx |-> idx, operation_idx |-> operation_idx,
     ack |-> IF idx = cosigner_idx THEN Some(TRUE) ELSE None,
     responded_at |-> IF idx = cosigner_idx THEN Some(now) ELSE None,
     processed_at |-> None,
     psbt_op_file_idx |-> psbt_op_file_idx]

\* the row post_operation creates for cosigner idx
PostStatusRow(idx, cosigner_idx, operation_idx, psbt_op_file_idx) ==
    [cosigner_idx |-> idx, operation_idx |-> operation_idx,
     ack |-> IF idx = cosigner_idx THEN Some(TRUE) ELSE None,
     responded_at |-> IF idx = cosigner_idx THEN Some(now) ELSE None,
     processed_at |-> None,
     psbt_op_file_idx |-> IF idx = cosigner_idx THEN psbt_op_file_idx ELSE None]

\* "create cosigner op status for all cosigners": one insert per key of
\* cosigners_by_idx, the keys not yet visited being todo
RECURSIVE PostCreateStatuses(_, _, _, _, _, _)
PostCreateStatuses(t, fault, todo, cosigner_idx, operation_idx, psbt_op_file_idx) ==
    IF todo = {} THEN t
    ELSE LET idx == CHOOSE k \in todo : \A j \in todo : k <= j
             row == PostStatusRow(idx, cosigner_idx, operation_idx, psbt_op_file_idx)
         IN  PostCreateStatuses(
                 Call(t, fault, "set_cosigner_op_status", ErrDatabase,
                      [t.db EXCEPT !.cosigner_op_status = @ (+) SetToBag({row})], t.fs),
                 fault, todo \ {idx}, cosigner_idx, operation_idx, psbt_op_file_idx)

\* the transaction of post_operation for the parsed request p
PostTxn(db, fs, cosigner_idx, p, fault) ==
    LET t0 == Call(TxnBegin(db, fs), fault, "begin_transaction", ErrDatabase, db, fs)
        operation_type == Unwrap(p.operation_type)
        initial_status == IF operation_type \in AUTO_APPROVED_OPS THEN Approved ELSE Pending
        operation_idx == Len(db.operation) + 1
        t1 == Call(t0, fault, "set_operation", ErrDatabase,
                   [t0.db EXCEPT !.operation = Append(@,
                        [type |-> operation_type, status |-> initial_status,
                         initiator_idx |-> cosigner_idx, created_at |-> now])], t0.fs)
        t2 == PostStoreFiles(t1, fault, p.files, 1, operation_idx)
        t3 == IF p.psbt_file # None
              THEN StoreFile(t2, fault, Psbt, Unwrap(p.psbt_file), operation_idx)
              ELSE t2
        psbt_op_file_idx == IF p.psbt_file # None THEN Some(Len(t3.db.op_file)) ELSE None
        t4 == PostCreateStatuses(t3, fault, Cosigners, cosigner_idx, operation_idx,
                                 psbt_op_file_idx)
        t5 == Call(t4, fault, "commit", ErrDatabase, t4.db, t4.fs)
    IN  [result |-> IF t5.err = NULL THEN Ok ELSE t5.err,
         operation_idx |-> operation_idx,
         db |-> TxnEnd(db, t5), fs |-> t5.fs]

\* post_operation by cosigner_idx with the multipart fields `fields`
PostOutcome(db, fs, cosigner_idx, fields, fault) ==
    LET allowed == PostAllowed(db, cosigner_idx)
        p == PostParse(fields)
    IN  IF allowed # NULL
        THEN [result |-> allowed, operation_idx |-> 0, db |-> db, fs |-> fs]
        ELSE IF p.err # NULL
        THEN [result |-> p.err, operation_idx |-> 0, db |-> db, fs |-> fs]
        ELSE PostTxn(db, fs, cosigner_idx, p, fault)

(* -------------------------- respond_to_operation ---------------------- *)

\* the multipart loop of respond_to_operation from field i on; acc is the
\* (req, psbt_file) collected so far
RECURSIVE RespondParseFrom(_, _, _)
RespondParseFrom(fields, i, acc) ==
    IF i > Len(fields) THEN acc
    ELSE LET f == fields[i] IN
         CASE f.name = "malformed" -> [acc EXCEPT !.err = ErrParseMultipart]
           [] f.name = "request" ->
                RespondParseFrom(fields, i + 1, [acc EXCEPT !.req = Some(f.json)])
           [] f.name = "file_psbt" ->
                IF acc.psbt_file # None THEN [acc EXCEPT !.err = ErrMoreThanOnePsbt]
                ELSE IF Len(f.bytes) = 0 THEN [acc EXCEPT !.err = ErrEmptyFile]
                ELSE RespondParseFrom(fields, i + 1, [acc EXCEPT !.psbt_file = Some(f.bytes)])
           [] OTHER -> [acc EXCEPT !.err = ErrUnexpectedField]

RespondParse(fields) ==
    RespondParseFrom(fields, 1, [err |-> NULL, req |-> None, psbt_file |-> None])

\* the checks without the sequential-processing check
RespondAllowed_NoOrderCheck(db, cosigner_idx, p) ==
    IF p.err # NULL THEN p.err
    ELSE IF p.req = None THEN ErrMissingBody
    ELSE LET req == Unwrap(p.req)
             op == get_operation_by_idx(db, req.operation_idx)
             status_entry == get_cosigner_op_status_entry(db, cosigner_idx, req.operation_idx)
         IN  IF req.ack /\ p.psbt_file = None THEN ErrAckRequiresPsbt
             ELSE IF op = None THEN ErrOperationNotFound
             ELSE IF Unwrap(op).initiator_idx = cosigner_idx THEN ErrOwnOperation
             ELSE IF Unwrap(op).status # Pending THEN ErrNotPending
             ELSE IF status_entry = {} THEN ErrPanic
             ELSE IF (CHOOSE r \in status_entry : TRUE).ack # None THEN ErrAlreadyResponded
             ELSE NULL

\* the checks without the pending check
RespondAllowed_NoPendingCheck(db, cosigner_idx, p) ==
    IF p.err # NULL THEN p.err
    ELSE IF p.req = None THEN ErrMissingBody
    ELSE LET req == Unwrap(p.req)
             op == get_operation_by_idx(db, req.operation_idx)
             status_entry == get_cosigner_op_status_entry(db, cosigner_idx, req.operation_idx)
         IN  IF req.ack /\ p.psbt_file = None THEN ErrAckRequiresPsbt
             ELSE IF op = None THEN ErrOperationNotFound
             ELSE IF Unwrap(op).initiator_idx = cosigner_idx THEN ErrOwnOperation
             ELSE IF status_entry = {} THEN ErrPanic
             ELSE IF (CHOOSE r \in status_entry : TRUE).ack # None THEN ErrAlreadyResponded
             ELSE IF req.operation_idx #
                         get_last_cosigner_processed_op_idx(db, cosigner_idx) + 1
                  THEN ErrNotNext
             ELSE NULL

\* the checks without the already-responded check
RespondAllowed_NoAnsweredCheck(db, cosigner_idx, p) ==
    IF p.err # NULL THEN p.err
    ELSE IF p.req = None THEN ErrMissingBody
    ELSE LET req == Unwrap(p.req)
             op == get_operation_by_idx(db, req.operation_idx)
             status_entry == get_cosigner_op_status_entry(db, cosigner_idx, req.operation_idx)
         IN  IF req.ack /\ p.psbt_file = None THEN ErrAckRequiresPsbt
             ELSE IF op = None THEN ErrOperationNotFound
             ELSE IF Unwrap(op).initiator_idx = cosigner_idx THEN ErrOwnOperation
             ELSE IF Unwrap(op).status # Pending THEN ErrNotPending
             ELSE IF status_entry = {} THEN ErrPanic
             ELSE IF req.operation_idx #
                         get_last_cosigner_processed_op_idx(db, cosigner_idx) + 1
                  THEN ErrNotNext
             ELSE NULL

\* "check if request is valid and allowed": NULL when the response may go on
RespondAllowed(db, cosigner_idx, p) ==
    IF p.err # NULL THEN p.err
    ELSE IF p.req = None THEN ErrMissingBody
    ELSE LET req == Unwrap(p.req)
             op == get_operation_by_idx(db, req.operation_idx)
             status_entry == get_cosigner_op_status_entry(db, cosigner_idx, req.operation_idx)
         IN  IF req.ack /\ p.psbt_file = None THEN ErrAckRequiresPsbt
             ELSE IF op = None THEN ErrOperationNotFound
             ELSE IF Unwrap(op).initiator_idx = cosigner_idx THEN ErrOwnOperation
             ELSE IF Unwrap(op).status # Pending THEN ErrNotPending
             ELSE IF status_entry = {} THEN ErrPanic   \* .expect("... should exist")
             ELSE IF (CHOOSE r \in status_entry : TRUE).ack # None THEN ErrAlreadyResponded
             ELSE IF req.operation_idx #
                         get_last_cosigner_processed_op_idx(db, cosigner_idx) + 1
                  THEN ErrNotNext
             ELSE NULL

\* how many rows of the bag rows have ack = Some(v)
RECURSIVE CountAck(_, _, _)
CountAck(rows, todo, v) ==
    IF todo = {} THEN 0
    ELSE LET r == CHOOSE x \in todo : TRUE
         IN  (IF r.ack = Some(v) THEN rows[r] ELSE 0) + CountAck(rows, todo \ {r}, v)

\* an approval that needs more ACKs than the threshold
RespondNewStatus_Strict(ack_count, nack_count, threshold, total_cosigners) ==
    IF ack_count > threshold THEN Some(Approved)
    ELSE IF nack_count > (total_cosigners - threshold) THEN Some(Discarded)
    ELSE None

\* a discard that needs only N - T NACKs
RespondNewStatus_EarlyDiscard(ack_count, nack_count, threshold, total_cosigners) ==
    IF ack_count >= threshold THEN Some(Approved)
    ELSE IF nack_count >= (total_cosigners - threshold) THEN Some(Discarded)
    ELSE None

\* "count ACKs and NACKs to determine new status": None leaves the status as it is
RespondNewStatus(ack_count, nack_count, threshold, total_cosigners) ==
    IF ack_count >= threshold THEN Some(Approved)
    ELSE IF nack_count > (total_cosigners - threshold) THEN Some(Discarded)
    ELSE None

\* the transaction of respond_to_operation for the parsed request p
RespondTxn(db, fs, cfg, cosigner_idx, p, fault) ==
    LET req == Unwrap(p.req)
        op == Unwrap(get_operation_by_idx(db, req.operation_idx))
        status_entry == CHOOSE r \in get_cosigner_op_status_entry(db, cosigner_idx,
                                                                 req.operation_idx) : TRUE
        t0 == Call(TxnBegin(db, fs), fault, "begin_transaction", ErrDatabase, db, fs)
        t1 == IF p.psbt_file # None
              THEN StoreFile(t0, fault, Psbt, Unwrap(p.psbt_file), req.operation_idx)
              ELSE t0
        psbt_op_file_idx == IF p.psbt_file # None THEN Some(Len(t1.db.op_file)) ELSE None
        status == [status_entry EXCEPT
                      !.ack = Some(req.ack),
                      !.responded_at = Some(now),
                      !.psbt_op_file_idx = IF psbt_op_file_idx # None
                                           THEN psbt_op_file_idx ELSE @]
        t2 == Call(t1, fault, "update_cosigner_op_status", ErrDatabase,
                   [t1.db EXCEPT !.cosigner_op_status =
                        (@ (-) SetToBag({status_entry})) (+) SetToBag({status})], t1.fs)
        status_entries == iter_cosigner_op_status_by_operation_idx(t2.db, req.operation_idx)
        ack_count == CountAck(status_entries, DOMAIN status_entries, TRUE)
        nack_count == CountAck(status_entries, DOMAIN status_entries, FALSE)
        threshold == get_threshold_for_operation(op.type, cfg.threshold_vanilla,
                                                 cfg.threshold_colored)
        new_status == RespondNewStatus(ack_count, nack_count, Unwrap(threshold),
                                       NumCosigners)
        t3 == IF t2.err # NULL THEN t2
              ELSE IF threshold = None THEN [t2 EXCEPT !.err = ErrPanic]
              ELSE IF new_status # None
              THEN Call(t2, fault, "update_operation", ErrDatabase,
                        [t2.db EXCEPT !.operation[req.operation_idx].status =
                             Unwrap(new_status)], t2.fs)
              ELSE t2
        t4 == Call(t3, fault, "commit", ErrDatabase, t3.db, t3.fs)
    IN  [result |-> IF t4.err = NULL THEN Ok ELSE t4.err,
         operation_idx |-> req.operation_idx,
         db |-> TxnEnd(db, t4), fs |-> t4.fs]

\* respond_to_operation by cosigner_idx with the multipart fields `fields`
RespondOutcome(db, fs, cfg, cosigner_idx, fields, fault) ==
    LET p == RespondParse(fields)
        allowed == RespondAllowed(db, cosigner_idx, p)
    IN  IF allowed # NULL
        THEN [result |-> allowed,
              operation_idx |-> IF p.req # None THEN Unwrap(p.req).operation_idx ELSE 0,
              db |-> db, fs |-> fs]
        ELSE RespondTxn(db, fs, cfg, cosigner_idx, p, fault)

(* ------------------------ mark_operation_processed -------------------- *)

\* the checks without the pending check
MarkAllowed_NoPendingCheck(db, cosigner_idx, operation_idx) ==
    LET op == get_operation_by_idx(db, operation_idx)
        status == get_cosigner_op_status_entry(db, cosigner_idx, operation_idx)
    IN  IF op = None THEN ErrOperationNotFound
        ELSE IF status = {} THEN ErrOperationNotFound
        ELSE IF (CHOOSE r \in status : TRUE).processed_at # None THEN ErrAlreadyMarked
        ELSE NULL

\* "check if request is allowed": NULL when the mark may go on
MarkAllowed(db, cosigner_idx, operation_idx) ==
    LET op == get_operation_by_idx(db, operation_idx)
        status == get_cosigner_op_status_entry(db, cosigner_idx, operation_idx)
    IN  IF op = None THEN ErrOperationNotFound
        ELSE IF Unwrap(op).status = Pending THEN ErrMarkPending
        ELSE IF status = {} THEN ErrOperationNotFound
        ELSE IF (CHOOSE r \in status : TRUE).processed_at # None THEN ErrAlreadyMarked
        ELSE NULL

\* mark_operation_processed by cosigner_idx on operation_idx
MarkOutcome(db, fs, cosigner_idx, operation_idx, fault) ==
    LET allowed == MarkAllowed(db, cosigner_idx, operation_idx)
        status == CHOOSE r \in get_cosigner_op_status_entry(db, cosigner_idx,
                                                           operation_idx) : TRUE
        t1 == Call(TxnBegin(db, fs), fault, "update_cosigner_op_status", ErrDatabase,
                   [db EXCEPT !.cosigner_op_status =
                        (@ (-) SetToBag({status})) (+)
                        SetToBag({[status EXCEPT !.processed_at = Some(now)]})], fs)
    IN  IF allowed # NULL
        THEN [result |-> allowed, operation_idx |-> operation_idx, db |-> db, fs |-> fs]
        ELSE [result |-> IF t1.err = NULL THEN Ok ELSE t1.err,
              operation_idx |-> operation_idx,
              db |-> TxnEnd(db, t1), fs |-> fs]

(* -------------------------- bump_address_indices ---------------------- *)

\* the largest value of the counters' integer type, u32 (BumpAddressIndicesResponse
\* returns the counter unconverted as `first: u32`). u32::MAX is 4294967295; the
\* model checker's integers end at 2^31 - 1, so the type's range is scaled to
\* end 255 (the largest count) below that, which keeps checked_add exact
U32_MAX == 2147483392

\* a bump that accepts any count
BumpOutcome_NoCountCheck(db, fs, req, fault) ==
    LET index == db.next_address_index
        first == IF req.internal THEN index.internal ELSE index.external
        new_next_index == first + req.count
    IN  IF new_next_index > U32_MAX
        THEN [result |-> ErrUnexpectedOverflow, first |-> first, db |-> db, fs |-> fs]
        ELSE [result |-> Ok, first |-> first,
              db |-> [db EXCEPT !.next_address_index =
                         IF req.internal THEN [@ EXCEPT !.internal = new_next_index]
                         ELSE [@ EXCEPT !.external = new_next_index]],
              fs |-> fs]

\* a bump whose addition wraps around
BumpOutcome_Wrapping(db, fs, req, fault) ==
    LET index == db.next_address_index
        first == IF req.internal THEN index.internal ELSE index.external
        new_next_index == (first + req.count) % (U32_MAX + 1)
    IN  IF req.count = 0
        THEN [result |-> ErrInvalidCount, first |-> 0, db |-> db, fs |-> fs]
        ELSE [result |-> Ok, first |-> first,
              db |-> [db EXCEPT !.next_address_index =
                         IF req.internal THEN [@ EXCEPT !.internal = new_next_index]
                         ELSE [@ EXCEPT !.external = new_next_index]],
              fs |-> fs]

\* a bump that moves both counters
BumpOutcome_BothCounters(db, fs, req, fault) ==
    LET index == db.next_address_index
        first == IF req.internal THEN index.internal ELSE index.external
    IN  IF req.count = 0
        THEN [result |-> ErrInvalidCount, first |-> 0, db |-> db, fs |-> fs]
        ELSE [result |-> Ok, first |-> first,
              db |-> [db EXCEPT !.next_address_index =
                         [internal |-> index.internal + req.count,
                          external |-> index.external + req.count]],
              fs |-> fs]

\* bump_address_indices with BumpAddressIndicesRequest req
BumpOutcome(db, fs, req, fault) ==
    LET t0 == Call(TxnBegin(db, fs), fault, "begin_transaction", ErrDatabase, db, fs)
        index == db.next_address_index
        first == IF req.internal THEN index.internal ELSE index.external
        new_next_index == first + req.count
        t1 == IF t0.err # NULL THEN t0
              ELSE IF new_next_index > U32_MAX   \* checked_add
              THEN [t0 EXCEPT !.err = ErrUnexpectedOverflow]
              ELSE Call(t0, fault, "update_next_address_index", ErrDatabase,
                        [t0.db EXCEPT !.next_address_index =
                             IF req.internal THEN [@ EXCEPT !.internal = new_next_index]
                             ELSE [@ EXCEPT !.external = new_next_index]], t0.fs)
        t2 == Call(t1, fault, "commit", ErrDatabase, t1.db, t1.fs)
    IN  IF req.count = 0
        THEN [result |-> ErrInvalidCount, first |-> 0, db |-> db, fs |-> fs]
        ELSE [result |-> IF t2.err = NULL THEN Ok ELSE t2.err, first |-> first,
              db |-> TxnEnd(db, t2), fs |-> fs]

(* ------------------------------- requests ----------------------------- *)

\* multipart fields
TypeField(bytes) == [name |-> "operation_type", bytes |-> bytes]

FileField(name, bytes) == [name |-> name, bytes |-> bytes]

RequestField(operation_idx, ack) ==
    [name |-> "request", json |-> [operation_idx |-> operation_idx, ack |-> ack]]

\* two file contents
BytesA == <<97>>

BytesB == <<98>>

\* the post_operation bodies tried: a vanilla, a colored and an auto-approved
\* type with a PSBT, and two bodies that are rejected
PostRequests ==
    { <<TypeField(<<CreateUtxos>>), FileField("file_psbt", BytesA)>>,
      <<TypeField(<<SendRgb>>), FileField("file_psbt", BytesA)>>,
      <<TypeField(<<Issuance>>), FileField("file_psbt", BytesA)>>,
      <<TypeField(<<8>>), FileField("file_psbt", BytesA)>>,
      <<TypeField(<<SendBtc>>)>> }

\* the respond_to_operation bodies tried on operation k: an ACK with its PSBT,
\* a NACK, and an ACK without PSBT, which is rejected
RespondRequests(k) ==
    { <<RequestField(k, TRUE), FileField("file_psbt", BytesA)>>,
      <<RequestField(k, FALSE)>>,
      <<RequestField(k, TRUE)>> }

\* operation idx values a request may name: every existing one and one beyond
OpIdxInputs == 1..(Len(operation) + 1)

\* the calls made to fail, tried on the well-formed bodies
PostFaults == {NoFault, <<"set_cosigner_op_status", 2>>}

RespondFaults == {NoFault, <<"commit", 1>>}

MarkFaults == {NoFault, <<"update_cosigner_op_status", 1>>}

BumpFaults == {NoFault, <<"commit", 1>>}

\* the configurations parse_args_and_config_internal accepts for NumCosigners
\* cosigners: both thresholds positive and not above the number of cosigners
ValidConfigs ==
    {c \in [threshold_colored : 0..(NumCosigners + 1),
            threshold_vanilla : 0..(NumCosigners + 1)] :
        /\ NumCosigners >= MIN_COSIGNERS
        /\ ~(c.threshold_colored = 0 \/ c.threshold_vanilla = 0)
        /\ ~(c.threshold_colored > NumCosigners \/ c.threshold_vanilla > NumCosigners)}

\* the configurations the daemon is started with here: every threshold value
\* occurs once as the vanilla and once as the colored threshold
ConfigChoices ==
    {c \in ValidConfigs : c.threshold_colored = (c.threshold_vanilla % NumCosigners) + 1}

(* ------------------------------- actions ------------------------------ *)

IdleTask == [pc |-> "idle"]

\* the xpub of a cosigner row; idx 0 stands for an xpub that is not configured
XpubOf(idx) == <<"xpub", idx>>

\* the cosigner_xpubs of the configuration file
ConfiguredXpubs == {XpubOf(c) : c \in Cosigners}

\* the AppParams parsed from a configuration with thresholds cfg
AppParamsOf(cfg, xpubs) ==
    [threshold_colored |-> cfg.threshold_colored,
     threshold_vanilla |-> cfg.threshold_vanilla,
     cosigner_xpubs |-> xpubs]

\* the rows start_daemon has inserted when its first start has completed
Seeded == [config |-> 1, cosigner |-> ConfiguredXpubs, next_address_index |-> 1]

\* the state start_daemon leaves on first start
Init ==
    /\ config \in ConfigChoices
    /\ operation = <<>>
    /\ op_file = <<>>
    /\ cosigner_op_status = EmptyBag
    /\ next_address_index = [internal |-> 0, external |-> 0]
    /\ files_dir = {}
    /\ write_lock = 0
    /\ task = [c \in Cosigners |-> IdleTask]
    /\ server = "running"
    /\ seed = Seeded
    /\ app_params = AppParamsOf(config, ConfiguredXpubs)

\* the handler's writes reach the tables and the files directory
Apply(out) ==
    /\ operation' = out.db.operation
    /\ op_file' = out.db.op_file
    /\ cosigner_op_status' = out.db.cosigner_op_status
    /\ next_address_index' = out.db.next_address_index
    /\ files_dir' = out.fs

\* no detached task is running: requests are handled one after the other
Quiet == write_lock = 0 /\ \A c \in Cosigners : task[c].pc = "idle"

\* one post_operation request, from lock acquisition to lock release
Post(cosigner_idx, fields, fault) ==
    /\ Quiet
    /\ Len(operation) < MaxOps
    /\ Apply(PostOutcome(Database, files_dir, cosigner_idx, fields, fault))
    /\ UNCHANGED <<config, write_lock, task, server, seed, app_params>>

\* one respond_to_operation request, from lock acquisition to lock release
Respond(cosigner_idx, fields, fault) ==
    /\ Quiet
    /\ Apply(RespondOutcome(Database, files_dir, config, cosigner_idx, fields, fault))
    /\ UNCHANGED <<config, write_lock, task, server, seed, app_params>>

\* one mark_operation_processed request, from lock acquisition to lock release
Mark(cosigner_idx, operation_idx, fault) ==
    /\ Quiet
    /\ Apply(MarkOutcome(Database, files_dir, cosigner_idx, operation_idx, fault))
    /\ UNCHANGED <<config, write_lock, task, server, seed, app_params>>

\* one bump_address_indices request, from lock acquisition to lock release
Bump(req, fault) ==
    /\ Quiet
    /\ (IF req.internal THEN next_address_index.internal
        ELSE next_address_index.external) + req.count <= MaxAddr
    /\ Apply(BumpOutcome(Database, files_dir, req, fault))
    /\ UNCHANGED <<config, write_lock, task, server, seed, app_params>>

\* the faults tried on a body: only a body that parses reaches its transaction
PostFaultsFor(fields) == IF PostParse(fields).err = NULL THEN PostFaults ELSE {NoFault}

RespondFaultsFor(fields) ==
    IF RespondParse(fields).err = NULL THEN RespondFaults ELSE {NoFault}

\* the requests on operations
NextOps ==
    \/ \E c \in Posters, fields \in PostRequests :
           \E fault \in PostFaultsFor(fields) : Post(c, fields, fault)
    \/ \E c \in Cosigners, k \in OpIdxInputs :
           \E fields \in RespondRequests(k) :
               \E fault \in RespondFaultsFor(fields) : Respond(c, fields, fault)
    \/ \E c \in Cosigners, k \in OpIdxInputs, fault \in MarkFaults : Mark(c, k, fault)

\* the requests on the address counters
NextAddr ==
    \E count \in 0..MaxAddr, internal \in BOOLEAN, fault \in BumpFaults :
        Bump([count |-> count, internal |-> internal], fault)

Next == NextOps

Spec == Init /\ [][Next]_vars

\* the four mutating endpoints together
NextAll == NextOps \/ NextAddr

SpecAll == Init /\ [][NextAll]_vars

(* ------------------- longer histories, fewer inputs ------------------- *)

\* the post bodies of the longer histories: an auto-approved and a vanilla type
PostRequestsSeq ==
    { <<TypeField(<<Issuance>>), FileField("file_psbt", BytesA)>>,
      <<TypeField(<<CreateUtxos>>), FileField("file_psbt", BytesA)>> }

\* the respond bodies of the longer histories: an ACK with its PSBT and a NACK
RespondRequestsSeq(k) ==
    { <<RequestField(k, TRUE), FileField("file_psbt", BytesA)>>,
      <<RequestField(k, FALSE)>> }

\* first start with a vanilla threshold of 2
InitSeq == Init /\ config.threshold_vanilla = 2

\* one post_operation request, while fewer than MaxOpsSeq operations exist
PostSeq(cosigner_idx, fields) ==
    /\ Quiet
    /\ Len(operation) < MaxOpsSeq
    /\ Apply(PostOutcome(Database, files_dir, cosigner_idx, fields, NoFault))
    /\ UNCHANGED <<config, write_lock, task, server, seed, app_params>>

NextSeq ==
    \/ \E c \in Posters, fields \in PostRequestsSeq : PostSeq(c, fields)
    \/ \E c \in Cosigners, k \in OpIdxInputs :
           \E fields \in RespondRequestsSeq(k) : Respond(c, fields, NoFault)
    \/ \E c \in Cosigners, k \in OpIdxInputs : Mark(c, k, NoFault)

SpecSeq == InitSeq /\ [][NextSeq]_vars

(* --------------------------- requests with files ---------------------- *)

\* post bodies with and without a PSBT, with a second file, and with the same
\* content uploaded as two files
PostRequestsFiles ==
    { <<TypeField(<<CreateUtxos>>), FileField("file_psbt", BytesA)>>,
      <<TypeField(<<CreateUtxos>>), FileField("file_media", BytesB),
        FileField("file_psbt", BytesA)>>,
      <<TypeField(<<Issuance>>), FileField("file_media", BytesA)>>,
      <<TypeField(<<Issuance>>), FileField("file_operation_data", BytesB),
        FileField("file_psbt", BytesB)>> }

\* respond bodies: an ACK with its PSBT, a NACK, and a NACK that carries a PSBT
RespondRequestsFiles(k) ==
    { <<RequestField(k, TRUE), FileField("file_psbt", BytesA)>>,
      <<RequestField(k, FALSE)>>,
      <<RequestField(k, FALSE), FileField("file_psbt", BytesB)>> }

\* the calls made to fail in the handlers that store files
PostFaultsFiles == {NoFault, <<"persist_temp_file", 1>>, <<"set_op_file", 1>>, <<"commit", 1>>}

RespondFaultsFiles == {NoFault, <<"set_op_file", 1>>, <<"commit", 1>>}

NextFiles ==
    \/ \E c \in Posters, fields \in PostRequestsFiles, fault \in PostFaultsFiles :
           Post(c, fields, fault)
    \/ \E c \in Cosigners, k \in OpIdxInputs :
           \E fields \in RespondRequestsFiles(k), fault \in RespondFaultsFiles :
               Respond(c, fields, fault)
    \/ \E c \in Cosigners, k \in OpIdxInputs : Mark(c, k, NoFault)

SpecFiles == InitSeq /\ [][NextFiles]_vars

(* ------------------------- concurrent post requests ------------------- *)

\* a write_lock.lock().await that never waits
LockFree_NoMutex == TRUE

\* write_lock.lock().await returns only while no other handler holds the guard
LockFree == write_lock = 0

\* the cosigners whose post_operation task has not returned yet
InFlight == {c \in Cosigners : task[c].pc \in {"waiting", "checked"}}

\* a client sends a post_operation request: no_cancel spawns the handler as a
\* detached task, which first waits for the write lock. pre records whether, as
\* the request is sent, no operation is Pending and the sender has no
\* unprocessed operation; peers records the cosigners whose post_operation is
\* in flight at some moment while this one is
IssuePost(cosigner_idx, fields) ==
    /\ task[cosigner_idx].pc = "idle"
    /\ Len(operation) < MaxOps
    /\ task' = [c \in Cosigners |->
                    IF c = cosigner_idx
                    THEN [pc |-> "waiting", fields |-> fields,
                          pre |-> /\ ~has_pending_operation(Database)
                                  /\ ~has_unprocessed_operation(Database, cosigner_idx),
                          peers |-> InFlight]
                    ELSE IF c \in InFlight
                    THEN [task[c] EXCEPT !.peers = @ \cup {cosigner_idx}]
                    ELSE task[c]]
    /\ UNCHANGED <<config, operation, op_file, cosigner_op_status, next_address_index,
                   files_dir, write_lock, server, seed, app_params>>

\* the task takes the write lock, checks that the request is allowed and parses
\* the body: a rejected request returns at once, which drops the guard
PostCheck(cosigner_idx) ==
    LET t == task[cosigner_idx]
        allowed == PostAllowed(Database, cosigner_idx)
        verdict == IF allowed # NULL THEN allowed ELSE PostParse(t.fields).err
    IN  /\ t.pc = "waiting"
        /\ LockFree
        /\ IF verdict # NULL
           THEN /\ task' = [task EXCEPT ![cosigner_idx] =
                               [pc |-> "done", fields |-> t.fields, pre |-> t.pre,
                                peers |-> t.peers, result |-> verdict]]
                /\ UNCHANGED write_lock
           ELSE /\ task' = [task EXCEPT ![cosigner_idx] =
                               [t EXCEPT !.pc = "checked"]]
                /\ write_lock' = cosigner_idx
        /\ UNCHANGED <<config, operation, op_file, cosigner_op_status, next_address_index,
                       files_dir, server, seed, app_params>>

\* the task runs its transaction and returns, which drops the guard
PostWrite(cosigner_idx) ==
    LET t == task[cosigner_idx]
        out == PostTxn(Database, files_dir, cosigner_idx, PostParse(t.fields), NoFault)
    IN  /\ t.pc = "checked"
        /\ Apply(out)
        /\ task' = [task EXCEPT ![cosigner_idx] =
                        [pc |-> "done", fields |-> t.fields, pre |-> t.pre,
                         peers |-> t.peers, result |-> out.result]]
        /\ write_lock' = 0
        /\ UNCHANGED <<config, server, seed, app_params>>

\* the client receives the response
Collect(cosigner_idx) ==
    /\ task[cosigner_idx].pc = "done"
    /\ task' = [task EXCEPT ![cosigner_idx] = IdleTask]
    /\ UNCHANGED <<config, operation, op_file, cosigner_op_status, next_address_index,
                   files_dir, write_lock, server, seed, app_params>>

NextConc ==
    \/ \E c \in Posters, fields \in PostRequestsSeq : IssuePost(c, fields)
    \/ \E c \in Posters : PostCheck(c)
    \/ \E c \in Posters : PostWrite(c)
    \/ \E c \in Posters : Collect(c)
    \/ \E c \in Cosigners, k \in OpIdxInputs :
           \E fields \in RespondRequestsSeq(k) : Respond(c, fields, NoFault)
    \/ \E c \in Cosigners, k \in OpIdxInputs : Mark(c, k, NoFault)

SpecConc == InitSeq /\ [][NextConc]_vars

(* ------------------ detached tasks, disconnect, shutdown -------------- *)

\* the cosigners that send requests in the histories with detached tasks
Clients == {c \in Cosigners : c <= MaxClients}

\* a spawned future is polled by the runtime whether or not the request that
\* spawned it is still connected
no_cancel_Inline(connected) == connected

no_cancel(connected) == TRUE

\* the requests the clients send: one post, the two responds and the mark of
\* every operation index
ServeRequests ==
    {[kind |-> "post", operation_idx |-> 0,
      fields |-> <<TypeField(<<CreateUtxos>>), FileField("file_psbt", BytesA)>>]}
    \cup UNION {{[kind |-> "respond", operation_idx |-> k, fields |-> f] :
                    f \in RespondRequestsSeq(k)} : k \in 1..MaxOpsServe}
    \cup {[kind |-> "mark", operation_idx |-> k, fields |-> <<>>] : k \in 1..MaxOpsServe}

\* the calls made to fail, by handler
ServeFaults(kind) ==
    CASE kind = "post" -> {NoFault, <<"set_cosigner_op_status", 2>>}
      [] kind = "respond" -> {NoFault, <<"commit", 1>>}
      [] kind = "mark" -> {NoFault, <<"update_cosigner_op_status", 1>>}

\* what the body of the handler of a request does once it holds the lock
HandlerOutcome(db, fs, cfg, cosigner_idx, req, fault) ==
    CASE req.kind = "post" -> PostOutcome(db, fs, cosigner_idx, req.fields, fault)
      [] req.kind = "respond" -> RespondOutcome(db, fs, cfg, cosigner_idx, req.fields, fault)
      [] req.kind = "mark" -> MarkOutcome(db, fs, cosigner_idx, req.operation_idx, fault)

\* the clients whose spawned task has not returned yet
Spawned == {c \in Clients : task[c].pc \in {"waiting", "locked"}}

\* a request arrives on a connection: the handler calls no_cancel, which spawns
\* its body as a task and waits for the result on the oneshot channel
Issue(cosigner_idx, req) ==
    /\ server = "running"
    /\ task[cosigner_idx].pc = "idle"
    /\ req.kind = "post" => Len(operation) < MaxOpsServe
    /\ task' = [task EXCEPT ![cosigner_idx] =
                    [pc |-> "waiting", req |-> req, connected |-> TRUE]]
    /\ UNCHANGED <<config, operation, op_file, cosigner_op_status, next_address_index,
                   files_dir, write_lock, server, seed, app_params>>

\* the task is polled and write_lock.lock().await returns the guard
TaskLock(cosigner_idx) ==
    /\ server # "exited"
    /\ task[cosigner_idx].pc = "waiting"
    /\ no_cancel(task[cosigner_idx].connected)
    /\ LockFree
    /\ task' = [task EXCEPT ![cosigner_idx].pc = "locked"]
    /\ write_lock' = cosigner_idx
    /\ UNCHANGED <<config, operation, op_file, cosigner_op_status, next_address_index,
                   files_dir, server, seed, app_params>>

\* the task runs the handler body to its return, which drops the guard; the
\* result is sent on the channel, to the request or to nobody
TaskRun(cosigner_idx) ==
    /\ server # "exited"
    /\ task[cosigner_idx].pc = "locked"
    /\ no_cancel(task[cosigner_idx].connected)
    /\ \E fault \in ServeFaults(task[cosigner_idx].req.kind) :
           Apply(HandlerOutcome(Database, files_dir, config, cosigner_idx,
                                task[cosigner_idx].req, fault))
    /\ task' = [task EXCEPT ![cosigner_idx] = IdleTask]
    /\ write_lock' = 0
    /\ UNCHANGED <<config, server, seed, app_params>>

\* the client closes the connection: the request future, with the receiving
\* end of the channel, is dropped. A future that was not spawned is dropped
\* with it, guard and transaction included
Disconnect(cosigner_idx) ==
    /\ server # "exited"
    /\ cosigner_idx \in Spawned
    /\ task[cosigner_idx].connected
    /\ IF no_cancel(FALSE)
       THEN /\ task' = [task EXCEPT ![cosigner_idx].connected = FALSE]
            /\ UNCHANGED write_lock
       ELSE /\ task' = [task EXCEPT ![cosigner_idx] = IdleTask]
            /\ write_lock' = IF write_lock = cosigner_idx THEN 0 ELSE write_lock
    /\ UNCHANGED <<config, operation, op_file, cosigner_op_status, next_address_index,
                   files_dir, server, seed, app_params>>

\* ctrl_c, SIGTERM or the cancel token: the listener stops accepting
Shutdown ==
    /\ server = "running"
    /\ server' = "draining"
    /\ UNCHANGED <<config, operation, op_file, cosigner_op_status, next_address_index,
                   files_dir, write_lock, task, seed, app_params>>

\* every connection is closed: serve returns, main returns and the runtime is
\* dropped, with the tasks still spawned on it
Exit ==
    /\ server = "draining"
    /\ \A c \in Spawned : ~task[c].connected
    /\ server' = "exited"
    /\ UNCHANGED <<config, operation, op_file, cosigner_op_status, next_address_index,
                   files_dir, write_lock, task, seed, app_params>>

NextServe ==
    \/ \E c \in Clients, req \in ServeRequests : Issue(c, req)
    \/ \E c \in Clients : TaskLock(c)
    \/ \E c \in Clients : TaskRun(c)
    \/ \E c \in Clients : Disconnect(c)
    \/ Shutdown
    \/ Exit

\* the guard of TaskRun
TaskRunEnabled(cosigner_idx) ==
    /\ server # "exited"
    /\ task[cosigner_idx].pc = "locked"
    /\ no_cancel(task[cosigner_idx].connected)

\* the runtime polls a spawned task that can make progress, and the mutex
\* hands the guard to its waiters in turn: strong fairness of TaskLock, and
\* weak fairness of TaskRun written with its enabling condition (TaskRun(c) is
\* enabled exactly when TaskRunEnabled(c))
FairServe ==
    \A c \in Clients :
        /\ SF_vars(TaskLock(c))
        /\ \/ []<>(~TaskRunEnabled(c))
           \/ []<><<TaskRun(c)>>_vars

SpecServe == InitSeq /\ [][NextServe]_vars /\ FairServe

(* ----------------------- concurrent bump requests --------------------- *)

\* the value of the counter a request bumps
CounterOf(index, internal) == IF internal THEN index.internal ELSE index.external

\* the bump requests sent: an empty range, short ranges and the longest one
BumpRequestsSeq ==
    [count : {0, 1, 2, 255}, internal : BOOLEAN]

\* the counters as the histories of bumps start: both at 0 as start_daemon
\* leaves them, or as they are MaxAddrBump short of the end of their type
\* after earlier bumps
InitBump ==
    /\ config \in ConfigChoices /\ config.threshold_vanilla = 2
    /\ operation = <<>>
    /\ op_file = <<>>
    /\ cosigner_op_status = EmptyBag
    /\ next_address_index \in [internal : {0}, external : {0, U32_MAX - MaxAddrBump}]
    /\ files_dir = {}
    /\ write_lock = 0
    /\ task = [c \in Cosigners |-> IdleTask]
    /\ server = "running"
    /\ seed = Seeded
    /\ app_params = AppParamsOf(config, ConfiguredXpubs)

\* a bump request arrives; bumps are sent while the counter is within
\* MaxAddrBump of its start or of the end of its type
IssueBump(cosigner_idx, req) ==
    /\ task[cosigner_idx].pc = "idle"
    /\ LET cur == CounterOf(next_address_index, req.internal)
       IN  cur + req.count <= MaxAddrBump \/ cur >= U32_MAX - MaxAddrBump
    /\ task' = [task EXCEPT ![cosigner_idx] = [pc |-> "waiting", req |-> req]]
    /\ UNCHANGED <<config, operation, op_file, cosigner_op_status, next_address_index,
                   files_dir, write_lock, server, seed, app_params>>

\* write_lock.lock().await returns the guard
BumpLock(cosigner_idx) ==
    /\ task[cosigner_idx].pc = "waiting"
    /\ LockFree
    /\ task' = [task EXCEPT ![cosigner_idx].pc = "locked"]
    /\ write_lock' = cosigner_idx
    /\ UNCHANGED <<config, operation, op_file, cosigner_op_status, next_address_index,
                   files_dir, server, seed, app_params>>

\* the handler checks the count and returns, or begins its transaction and
\* reads the NextAddressIndex row
BumpRead(cosigner_idx) ==
    LET t == task[cosigner_idx]
    IN  /\ t.pc = "locked"
        /\ IF BumpOutcome(Database, files_dir, t.req, NoFault).result = ErrInvalidCount
           THEN /\ task' = [task EXCEPT ![cosigner_idx] = IdleTask]
                /\ write_lock' = 0
           ELSE /\ task' = [task EXCEPT ![cosigner_idx] =
                               [pc |-> "read", req |-> t.req, index |-> next_address_index]]
                /\ UNCHANGED write_lock
        /\ UNCHANGED <<config, operation, op_file, cosigner_op_status, next_address_index,
                       files_dir, server, seed, app_params>>

\* the handler adds the count to the value it read, updates the row, commits
\* and returns first, which drops the guard
BumpWrite(cosigner_idx, fault) ==
    LET t == task[cosigner_idx]
    IN  /\ t.pc = "read"
        /\ Apply(BumpOutcome([Database EXCEPT !.next_address_index = t.index], files_dir,
                             t.req, fault))
        /\ task' = [task EXCEPT ![cosigner_idx] = IdleTask]
        /\ write_lock' = 0
        /\ UNCHANGED <<config, server, seed, app_params>>

NextBump ==
    \/ \E c \in Clients, req \in BumpRequestsSeq : IssueBump(c, req)
    \/ \E c \in Clients : BumpLock(c)
    \/ \E c \in Clients : BumpRead(c)
    \/ \E c \in Clients, fault \in BumpFaults : BumpWrite(c, fault)

SpecBump == InitBump /\ [][NextBump]_vars

(* ------------------------ authentication and views -------------------- *)

\* AppState.cosigners_by_xpub
cosigners_by_xpub == [x \in {XpubOf(c) : c \in Cosigners} |-> x[2]]

ErrUnauthorized == "Unauthorized"

ErrForbidden == "Forbidden"

ErrNotFound == "NotFound"

ErrFileNotFound == "FileNotFound"

WatchOnly == [kind |-> "WatchOnly"]

Cosigner(xpub, idx) == [kind |-> "Cosigner", xpub |-> xpub, idx |-> idx]

\* the routes of the router
Routes == {"/postoperation", "/bumpaddressindices", "/getcurrentaddressindices", "/getfile",
           "/getlastprocessedopidx", "/getoperationbyidx", "/info",
           "/markoperationprocessed", "/respondtooperation"}

WATCH_ONLY_ALLOWED_ROUTES_All == Routes

WATCH_ONLY_ALLOWED_ROUTES ==
    {"/info", "/getoperationbyidx", "/getcurrentaddressindices", "/getfile"}

is_watch_only_allowed(path) == path \in WATCH_ONLY_ALLOWED_ROUTES

\* the requests' credentials: header is None or the bearer token, a token is
\* signed by the root key, by another key or is not a token at all, and holds
\* at most one role fact and one xpub fact
Tokens ==
    {[header |-> None]}
    \cup {[header |-> Some([signature |-> sg, expired |-> e, role |-> r, xpub |-> x])] :
              sg \in {"root", "other", "malformed"}, e \in BOOLEAN,
              r \in {None, Some("cosigner"), Some("watch-only"), Some("admin")},
              x \in {None} \cup {Some(XpubOf(c)) : c \in 0..NumCosigners}}

\* the principal a token with a role gives, by role and xpub
UserOf_AnyXpub(role, xpub) ==
    IF role = "cosigner" /\ xpub # None
    THEN Some(Cosigner(Unwrap(xpub), Unwrap(xpub)[2]))
    ELSE IF role = "watch-only" /\ xpub = None THEN Some(WatchOnly)
    ELSE None

UserOf(role, xpub) ==
    IF role = "cosigner" /\ xpub # None
    THEN IF Unwrap(xpub) \in DOMAIN cosigners_by_xpub
         THEN Some(Cosigner(Unwrap(xpub), cosigners_by_xpub[Unwrap(xpub)]))
         ELSE None
    ELSE IF role = "watch-only" /\ xpub = None THEN Some(WatchOnly)
    ELSE None

\* conditional_auth_middleware: the error it returns, or the user it inserts
\* into the request before next.run
conditional_auth_middleware(token, path) ==
    IF token.header = None THEN [err |-> ErrUnauthorized, user |-> None]
    ELSE LET t == Unwrap(token.header)
             user == IF t.role = None THEN None ELSE UserOf(Unwrap(t.role), t.xpub)
         IN  IF t.signature # "root" THEN [err |-> ErrUnauthorized, user |-> None]
             ELSE IF t.expired THEN [err |-> ErrUnauthorized, user |-> None]
             ELSE IF user = None THEN [err |-> ErrUnauthorized, user |-> None]
             ELSE IF Unwrap(user) = WatchOnly /\ ~is_watch_only_allowed(path)
             THEN [err |-> ErrForbidden, user |-> None]
             ELSE [err |-> NULL, user |-> user]

\* get_cosigner_op_status_with_cosigners_by_operation_idx: the rows of an
\* operation, each joined with its cosigner (whose xpub is XpubOf of its idx)
status_entries_with_cosigner(db, operation_idx) ==
    BagToSet(iter_cosigner_op_status_by_operation_idx(db, operation_idx))

\* the xpubs of all the rows of an operation that hold an answer
XpubsWithAck_Responded(db, operation_idx, v) ==
    {XpubOf(r.cosigner_idx) :
        r \in {q \in status_entries_with_cosigner(db, operation_idx) : q.ack # None}}

\* the rows of an operation with a value of ack, as xpubs
XpubsWithAck(db, operation_idx, v) ==
    {XpubOf(r.cosigner_idx) :
        r \in {q \in status_entries_with_cosigner(db, operation_idx) :
                  q.ack = Some(v)}}

\* my_response and processed_at of the view, for any viewer
MyStatus_FirstRow(db, operation_idx, cosigner_idx) ==
    LET mine == get_cosigner_op_status_entry(db, db.operation[operation_idx].initiator_idx,
                                             operation_idx)
    IN  IF mine = {} THEN [my_response |-> None, processed_at |-> None]
        ELSE LET status == CHOOSE r \in mine : TRUE
             IN  [my_response |-> status.ack, processed_at |-> status.processed_at]

\* my_response and processed_at of the view: those of the viewer's row
MyStatus(db, operation_idx, cosigner_idx) ==
    LET mine == IF cosigner_idx = None THEN {}
                ELSE get_cosigner_op_status_entry(db, Unwrap(cosigner_idx), operation_idx)
    IN  IF mine = {} THEN [my_response |-> None, processed_at |-> None]
        ELSE LET status == CHOOSE r \in mine : TRUE
             IN  [my_response |-> status.ack, processed_at |-> status.processed_at]

\* the files of the view, a list: every OpFile row of the operation, as
\* posted by the initiator, then the PSBT of every other cosigner's row, as
\* posted by that cosigner
ViewFiles(db, operation_idx) ==
    LET op == db.operation[operation_idx]
        RECURSIVE Own(_)
        Own(i) ==
            IF i > Len(db.op_file) THEN <<>>
            ELSE (IF db.op_file[i].operation_idx = operation_idx
                  THEN <<[file_id |-> db.op_file[i].file_id, type |-> db.op_file[i].type,
                          posted_by_xpub |-> XpubOf(op.initiator_idx),
                          size_bytes |-> Len(db.op_file[i].file_id[2])]>>
                  ELSE <<>>) \o Own(i + 1)
        RECURSIVE Others(_)
        Others(c) ==
            IF c > NumCosigners THEN <<>>
            ELSE LET rows == {q \in status_entries_with_cosigner(db, operation_idx) :
                                 /\ q.cosigner_idx = c
                                 /\ q.cosigner_idx # op.initiator_idx
                                 /\ q.psbt_op_file_idx # None}
                 IN  (IF rows = {} THEN <<>>
                      ELSE LET r == CHOOSE q \in rows : TRUE
                               psbt_file == db.op_file[Unwrap(r.psbt_op_file_idx)]
                           IN  <<[file_id |-> psbt_file.file_id, type |-> Psbt,
                                  posted_by_xpub |-> XpubOf(r.cosigner_idx),
                                  size_bytes |-> Len(psbt_file.file_id[2])]>>)
                     \o Others(c + 1)
    IN  Own(1) \o Others(1)

\* get_operation_by_idx_with_files: None for an unknown index, an IO error
\* when a file of the operation is not in the files directory
get_operation_by_idx_with_files(db, fs, cfg, operation_idx, cosigner_idx) ==
    IF get_operation_by_idx(db, operation_idx) = None
    THEN [result |-> Ok, body |-> None]
    ELSE LET op == Unwrap(get_operation_by_idx(db, operation_idx))
             mine == MyStatus(db, operation_idx, cosigner_idx)
             files == ViewFiles(db, operation_idx)
         IN  IF \E i \in DOMAIN files : files[i].file_id \notin fs
             THEN [result |-> ErrIO, body |-> None]
             ELSE [result |-> Ok,
                   body |-> Some([operation_idx |-> operation_idx,
                                  initiator_xpub |-> XpubOf(op.initiator_idx),
                                  created_at |-> op.created_at,
                                  operation_type |-> op.type,
                                  status |-> op.status,
                                  acked_by |-> XpubsWithAck(db, operation_idx, TRUE),
                                  nacked_by |-> XpubsWithAck(db, operation_idx, FALSE),
                                  threshold |-> get_threshold_for_operation(
                                                    op.type, cfg.threshold_vanilla,
                                                    cfg.threshold_colored),
                                  my_response |-> mine.my_response,
                                  processed_at |-> mine.processed_at,
                                  files |-> files])]

\* get_current_address_indices
get_current_address_indices(db) ==
    [internal |-> IF db.next_address_index.internal = 0 THEN None
                  ELSE Some(db.next_address_index.internal - 1),
     external |-> IF db.next_address_index.external = 0 THEN None
                  ELSE Some(db.next_address_index.external - 1)]

\* a handler that only reads
ReadOutcome(db, fs, result, body) ==
    [result |-> result, body |-> body, db |-> db, fs |-> fs]

\* a handler that writes, with no body of interest
WriteOutcome(out) ==
    [result |-> out.result, body |-> None, db |-> out.db, fs |-> out.fs]

\* the handler the router runs for a path, with the user the middleware
\* inserted; req holds the request's fields, idx, and bump parameters
RouteOutcome(db, fs, cfg, user, path, req, fault) ==
    CASE path = "/postoperation" ->
           IF user.kind = "Cosigner"
           THEN WriteOutcome(PostOutcome(db, fs, user.idx, req.fields, fault))
           ELSE ReadOutcome(db, fs, ErrForbidden, None)
      [] path = "/respondtooperation" ->
           IF user.kind = "Cosigner"
           THEN WriteOutcome(RespondOutcome(db, fs, cfg, user.idx, req.fields, fault))
           ELSE ReadOutcome(db, fs, ErrForbidden, None)
      [] path = "/markoperationprocessed" ->
           IF user.kind = "Cosigner"
           THEN WriteOutcome(MarkOutcome(db, fs, user.idx, req.operation_idx, fault))
           ELSE ReadOutcome(db, fs, ErrForbidden, None)
      [] path = "/bumpaddressindices" ->
           WriteOutcome(BumpOutcome(db, fs, [count |-> req.count, internal |-> req.internal],
                                    fault))
      [] path = "/getlastprocessedopidx" ->
           IF user.kind = "Cosigner"
           THEN ReadOutcome(db, fs, Ok,
                            Some(get_last_cosigner_processed_op_idx(db, user.idx)))
           ELSE ReadOutcome(db, fs, ErrForbidden, None)
      [] path = "/getoperationbyidx" ->
           LET view == get_operation_by_idx_with_files(
                           db, fs, cfg, req.operation_idx,
                           IF user.kind = "Cosigner" THEN Some(user.idx) ELSE None)
           IN  ReadOutcome(db, fs, view.result, view.body)
      [] path = "/getcurrentaddressindices" ->
           ReadOutcome(db, fs, Ok, Some(get_current_address_indices(db)))
      [] path = "/getfile" ->
           IF req.file_id \in fs THEN ReadOutcome(db, fs, Ok, Some(req.file_id[2]))
           ELSE ReadOutcome(db, fs, ErrFileNotFound, None)
      [] path = "/info" ->
           ReadOutcome(db, fs, Ok, Some(get_last_operation_idx(db)))
      [] OTHER -> ReadOutcome(db, fs, ErrNotFound, None)

\* a request: the middleware, then the handler unless the middleware has
\* answered
ServeOutcome(db, fs, cfg, token, path, req, fault) ==
    LET auth == conditional_auth_middleware(token, path)
    IN  IF auth.err # NULL THEN ReadOutcome(db, fs, auth.err, None)
        ELSE RouteOutcome(db, fs, cfg, Unwrap(auth.user), path, req, fault)

\* the paths requested: the routes and a path that is none
Paths == Routes \cup {"/other"}

\* the request bodies sent to every path
AuthRequests ==
    UNION {{[fields |-> f, operation_idx |-> k, count |-> 1, internal |-> i,
             file_id |-> compute_file_id(BytesA)] :
               f \in {<<TypeField(<<CreateUtxos>>), FileField("file_psbt", BytesA)>>}
                         \cup RespondRequestsSeq(k),
               i \in BOOLEAN} : k \in 1..MaxOpsAuth}

\* the tokens that send requests: no token, the unexpired tokens signed by
\* the root key, and the other tokens of cosigner 1
SendingTokens ==
    {t \in Tokens :
        \/ t.header = None
        \/ /\ t.header # None
           /\ LET h == Unwrap(t.header)
              IN  \/ /\ h.signature = "root" /\ ~h.expired
                     /\ h.xpub = None \/ h.role = Some("cosigner")
                  \/ /\ h.signature = "root" /\ ~h.expired
                     /\ h.xpub = Some(XpubOf(1))
                  \/ h.role = Some("cosigner") /\ h.xpub = Some(XpubOf(1))}

\* one request served from its arrival to its response
Request(token, path, req) ==
    /\ Quiet
    /\ path = "/postoperation" => Len(operation) < MaxOpsAuth
    /\ path = "/bumpaddressindices" =>
           (IF req.internal THEN next_address_index.internal
            ELSE next_address_index.external) + req.count <= MaxAddr
    /\ Apply(ServeOutcome(Database, files_dir, config, token, path, req, NoFault))
    /\ UNCHANGED <<config, write_lock, task, server, seed, app_params>>

NextAuth ==
    \E token \in SendingTokens, path \in Paths, req \in AuthRequests :
        Request(token, path, req)

SpecAuth == InitSeq /\ [][NextAuth]_vars

(* ------------------------- first start and restart -------------------- *)

\* the steps of start_daemon: the process is "stopped", has opened and
\* migrated the database ("starting"), has inserted the Config row
\* ("seeded_config"), has inserted the cosigner rows ("seeded_cosigners"),
\* or has returned the application state ("running").
Unseeded == [config |-> 0, cosigner |-> {}, next_address_index |-> 0]

\* a cosigner set of the same size that differs from the configured one
OtherXpubs == (ConfiguredXpubs \ {XpubOf(NumCosigners)}) \cup {XpubOf(0)}

\* the configurations the daemon is launched with: two pairs of thresholds
\* and two cosigner sets
StartParams ==
    {AppParamsOf(cfg, xpubs) :
        cfg \in {c \in ConfigChoices : c.threshold_vanilla \in {1, 2}},
        xpubs \in {ConfiguredXpubs, OtherXpubs}}

ErrInvalidThreshold == "InvalidThreshold"

ErrCannotChangeCosigners == "CannotChangeCosigners"

InitStart ==
    /\ config \in ConfigChoices /\ config.threshold_vanilla = 2
    /\ operation = <<>>
    /\ op_file = <<>>
    /\ cosigner_op_status = EmptyBag
    /\ next_address_index = [internal |-> 0, external |-> 0]
    /\ files_dir = {}
    /\ write_lock = 0
    /\ task = [c \in Cosigners |-> IdleTask]
    /\ server = "stopped"
    /\ seed = Unseeded
    /\ app_params = AppParamsOf(config, ConfiguredXpubs)

\* the process starts with a configuration: it connects to the database and
\* runs the migrations
Launch(params) ==
    /\ server = "stopped"
    /\ server' = "starting"
    /\ app_params' = params
    /\ UNCHANGED <<config, operation, op_file, cosigner_op_status, next_address_index,
                   files_dir, write_lock, task, seed>>

\* every insert of the seeding runs on a connection of its own and commits
\* by itself
set_config(rows) == [rows EXCEPT !.config = @ + 1]

set_cosigners(rows, xpubs) == [rows EXCEPT !.cosigner = @ \cup xpubs]

set_next_address_index(rows) == [rows EXCEPT !.next_address_index = @ + 1]

StartedOutcome_NoChecks(db_config, db_xpubs, params) == Ok

\* the "already started" branch: the stored thresholds, then the stored
\* cosigner xpubs, are compared with the configured ones
StartedOutcome(db_config, db_xpubs, params) ==
    IF \/ db_config.threshold_colored # params.threshold_colored
       \/ db_config.threshold_vanilla # params.threshold_vanilla
    THEN ErrInvalidThreshold
    ELSE IF db_xpubs # params.cosigner_xpubs
    THEN ErrCannotChangeCosigners
    ELSE Ok

\* a Config row exists: start_daemon returns the state or an error
StartConfigured ==
    /\ server = "starting"
    /\ seed.config > 0
    /\ server' = IF StartedOutcome(config, seed.cosigner, app_params) = Ok
                 THEN "running" ELSE "stopped"
    /\ UNCHANGED <<config, operation, op_file, cosigner_op_status, next_address_index,
                   files_dir, write_lock, task, seed, app_params>>

\* no Config row exists: the first start inserts it
SeedConfig ==
    /\ server = "starting"
    /\ seed.config = 0
    /\ seed' = set_config(seed)
    /\ config' = [threshold_colored |-> app_params.threshold_colored,
                  threshold_vanilla |-> app_params.threshold_vanilla]
    /\ server' = "seeded_config"
    /\ UNCHANGED <<operation, op_file, cosigner_op_status, next_address_index,
                   files_dir, write_lock, task, app_params>>

\* the first start inserts one row per configured xpub; the id of the last
\* one must be the number of xpubs
SeedCosigners ==
    /\ server = "seeded_config"
    /\ seed' = set_cosigners(seed, app_params.cosigner_xpubs)
    /\ server' = IF seed.cosigner = {} THEN "seeded_cosigners" ELSE "stopped"
    /\ UNCHANGED <<config, operation, op_file, cosigner_op_status, next_address_index,
                   files_dir, write_lock, task, app_params>>

\* the first start inserts the NextAddressIndex row, both counters 0, and
\* returns the state
SeedIndex ==
    /\ server = "seeded_cosigners"
    /\ seed' = set_next_address_index(seed)
    /\ next_address_index' = [internal |-> 0, external |-> 0]
    /\ server' = IF seed.next_address_index = 0 THEN "running" ELSE "stopped"
    /\ UNCHANGED <<config, operation, op_file, cosigner_op_status,
                   files_dir, write_lock, task, app_params>>

\* the process dies or a database call of start_daemon fails: the rows
\* already inserted stay
Crash ==
    /\ server \in {"starting", "seeded_config", "seeded_cosigners", "running"}
    /\ server' = "stopped"
    /\ UNCHANGED <<config, operation, op_file, cosigner_op_status, next_address_index,
                   files_dir, write_lock, task, seed, app_params>>

\* the started daemon serves requests; a bump reads the NextAddressIndex row
Serving ==
    /\ server = "running"
    /\ \/ \E c \in Posters, fields \in PostRequestsSeq : Post(c, fields, NoFault)
       \/ \E c \in Cosigners, k \in OpIdxInputs : Mark(c, k, NoFault)
       \/ /\ seed.next_address_index > 0
          /\ NextAddr

NextStart ==
    \/ \E params \in StartParams : Launch(params)
    \/ StartConfigured
    \/ SeedConfig
    \/ SeedCosigners
    \/ SeedIndex
    \/ Crash
    \/ Serving

SpecStart == InitStart /\ [][NextStart]_vars

(* ---------------------- the four mutating handlers -------------------- *)

\* the requests sent to the four mutating endpoints
LockRequests ==
    ServeRequests
    \cup {[kind |-> "bump", operation_idx |-> 0, fields |-> <<>>,
           bump |-> [count |-> 1, internal |-> FALSE]]}

\* the calls made to fail, by handler
LockFaults(kind) == IF kind = "bump" THEN BumpFaults ELSE ServeFaults(kind)

\* what the body of a mutating handler does with the tables it reads
LockedOutcome(db, fs, cfg, cosigner_idx, req, fault) ==
    IF req.kind = "bump" THEN BumpOutcome(db, fs, req.bump, fault)
    ELSE HandlerOutcome(db, fs, cfg, cosigner_idx, req, fault)

\* a request arrives and its handler waits for the write lock
Send(c, req) ==
    /\ task[c].pc = "idle"
    /\ req.kind = "post" => Len(operation) < MaxOpsServe
    /\ req.kind = "bump" => next_address_index.external + req.bump.count <= MaxAddr
    /\ task' = [task EXCEPT ![c] = [pc |-> "waiting", req |-> req]]
    /\ UNCHANGED <<config, operation, op_file, cosigner_op_status, next_address_index,
                   files_dir, write_lock, server, seed, app_params>>

\* write_lock.lock().await returns the guard: the first statement of every
\* mutating handler
Acquire(c) ==
    /\ task[c].pc = "waiting"
    /\ LockFree
    /\ task' = [task EXCEPT ![c].pc = "locked"]
    /\ write_lock' = c
    /\ UNCHANGED <<config, operation, op_file, cosigner_op_status, next_address_index,
                   files_dir, server, seed, app_params>>

\* the handler makes its first database read; seen is what it read
FirstRead(c) ==
    /\ task[c].pc = "locked"
    /\ task' = [task EXCEPT ![c] = [pc |-> "reading", req |-> task[c].req,
                                    seen |-> Database]]
    /\ UNCHANGED <<config, operation, op_file, cosigner_op_status, next_address_index,
                   files_dir, write_lock, server, seed, app_params>>

\* the handler decides on what it read, commits or returns its error, and
\* returns: the guard is dropped
Finish(c) ==
    /\ task[c].pc = "reading"
    /\ \E fault \in LockFaults(task[c].req.kind) :
           Apply(LockedOutcome(task[c].seen, files_dir, config, c, task[c].req, fault))
    /\ task' = [task EXCEPT ![c] = IdleTask]
    /\ write_lock' = 0
    /\ UNCHANGED <<config, server, seed, app_params>>

\* a get_operation_by_idx request: the handler takes no lock and opens no
\* transaction; its first query reads the Operation row
ViewOperation(c, operation_idx) ==
    /\ task[c].pc = "idle"
    /\ get_operation_by_idx(Database, operation_idx) # None
    /\ task' = [task EXCEPT ![c] = [pc |-> "viewing", operation_idx |-> operation_idx,
                                    operation |-> operation]]
    /\ UNCHANGED <<config, operation, op_file, cosigner_op_status, next_address_index,
                   files_dir, write_lock, server, seed, app_params>>

\* its later queries read the status rows and the files, and the view is
\* built from the Operation row read before
ViewStatuses(c) ==
    /\ task[c].pc = "viewing"
    /\ task' = [task EXCEPT ![c] =
                    [pc |-> "viewed",
                     view |-> get_operation_by_idx_with_files(
                                  [Database EXCEPT !.operation = task[c].operation],
                                  files_dir, config, task[c].operation_idx, Some(c))]]
    /\ UNCHANGED <<config, operation, op_file, cosigner_op_status, next_address_index,
                   files_dir, write_lock, server, seed, app_params>>

\* the view is sent to the client
ViewReturn(c) ==
    /\ task[c].pc = "viewed"
    /\ task' = [task EXCEPT ![c] = IdleTask]
    /\ UNCHANGED <<config, operation, op_file, cosigner_op_status, next_address_index,
                   files_dir, write_lock, server, seed, app_params>>

NextLock ==
    \/ \E c \in Clients, req \in LockRequests : Send(c, req)
    \/ \E c \in Clients : Acquire(c)
    \/ \E c \in Clients : FirstRead(c)
    \/ \E c \in Clients : Finish(c)
    \/ \E c \in Clients, k \in OpIdxInputs : ViewOperation(c, k)
    \/ \E c \in Clients : ViewStatuses(c)
    \/ \E c \in Clients : ViewReturn(c)

SpecLock == InitSeq /\ [][NextLock]_vars

(* ----------------------- cosigners that keep acting ------------------- *)

\* cosigner c has a mark or a response that would be accepted
CanAct(c) ==
    \/ \E k \in 1..Len(operation) : MarkOutcome(Database, files_dir, c, k, NoFault).result = Ok
    \/ \E k \in 1..Len(operation) : \E fields \in RespondRequests(k) :
           RespondOutcome(Database, files_dir, config, c, fields, NoFault).result = Ok

\* a mark or a response of cosigner c
Act(c) ==
    \/ \E k \in OpIdxInputs : Mark(c, k, NoFault)
    \/ \E k \in OpIdxInputs : \E fields \in RespondRequests(k) : Respond(c, fields, NoFault)

\* every cosigner keeps sending its marks and responses: while one of them
\* would be accepted, one is eventually handled
FairCosigners ==
    \A c \in Cosigners : []<>(~CanAct(c)) \/ []<><<Act(c)>>_vars

SpecLive == Init /\ [][Next]_vars /\ FairCosigners

(* -------------------- request bodies read under the lock -------------- *)

\* the requests of ServeRequests and a post whose operation_type field is
\* empty, on which the task panics
BodyRequests ==
    ServeRequests
    \cup {[kind |-> "post", operation_idx |-> 0,
           fields |-> <<TypeField(<<>>), FileField("file_psbt", BytesA)>>]}

\* the handler holding the lock awaits multipart.next_field(): respond reads
\* its body as soon as it holds the lock, post after its two admission
\* checks; mark gets its JSON body from the extractor, before the lock
NeedsBody(c) ==
    \/ task[c].req.kind = "respond"
    \/ task[c].req.kind = "post" /\ PostAllowed(Database, c) = NULL

\* the client sends the rest of its multipart body
ReadBody(c) ==
    /\ task[c].pc = "locked"
    /\ task[c].connected
    /\ NeedsBody(c)
    /\ task' = [task EXCEPT ![c].pc = "parsed"]
    /\ UNCHANGED <<config, operation, op_file, cosigner_op_status, next_address_index,
                   files_dir, write_lock, server, seed, app_params>>

\* the connection was closed: next_field() fails, the handler returns
\* "failed to parse multipart" and the guard is dropped
BodyError(c) ==
    /\ task[c].pc = "locked"
    /\ ~task[c].connected
    /\ NeedsBody(c)
    /\ task' = [task EXCEPT ![c] = IdleTask]
    /\ write_lock' = 0
    /\ UNCHANGED <<config, operation, op_file, cosigner_op_status, next_address_index,
                   files_dir, server, seed, app_params>>

\* the handler has all it reads from the client
ReturnEnabled(c) ==
    \/ task[c].pc = "parsed"
    \/ task[c].pc = "locked" /\ ~NeedsBody(c)

\* the handler runs to its return (its result, an error or a panic), which
\* drops the guard
Return(c) ==
    /\ ReturnEnabled(c)
    /\ \E fault \in ServeFaults(task[c].req.kind) :
           Apply(HandlerOutcome(Database, files_dir, config, c, task[c].req, fault))
    /\ task' = [task EXCEPT ![c] = IdleTask]
    /\ write_lock' = 0
    /\ UNCHANGED <<config, server, seed, app_params>>

NextBody ==
    \/ \E c \in Clients, req \in BodyRequests : Issue(c, req)
    \/ \E c \in Clients : TaskLock(c)
    \/ \E c \in Clients : ReadBody(c)
    \/ \E c \in Clients : BodyError(c)
    \/ \E c \in Clients : Return(c)
    \/ \E c \in Clients : Disconnect(c)

\* the runtime polls a task that can make progress and the mutex hands the
\* guard to its waiters in turn; nothing makes a client send or disconnect
FairBody ==
    \A c \in Clients :
        /\ SF_vars(TaskLock(c))
        /\ WF_vars(BodyError(c))
        /\ \/ []<>(~ReturnEnabled(c))
           \/ []<><<Return(c)>>_vars

SpecBody == InitSeq /\ [][NextBody]_vars /\ FairBody

(* ------------------------------ properties ---------------------------- *)

\* the operations that exist
Ops == 1..Len(operation)

\* the idx values of the operations of db whose status is st
OpsWithStatus(db, st) == {i \in 1..Len(db.operation) : db.operation[i].status = st}

\* the cosigners with a row for operation k whose ack is Some(v)
Answered(db, k, v) ==
    {c \in Cosigners : \E r \in get_cosigner_op_status_entry(db, c, k) : r.ack = Some(v)}

\* the operations cosigner c has marked processed
ProcessedOps(db, c) ==
    {k \in 1..Len(db.operation) :
        \E r \in get_cosigner_op_status_entry(db, c, k) : r.processed_at # None}

\* how many CosignerOpStatus rows db holds for cosigner c and operation k
RowCount(db, c, k) ==
    LET rows == get_cosigner_op_status_entry(db, c, k)
        RECURSIVE Sum(_)
        Sum(todo) == IF todo = {} THEN 0
                     ELSE LET r == CHOOSE x \in todo : TRUE
                          IN  CopiesIn(r, db.cosigner_op_status) + Sum(todo \ {r})
    IN  Sum(rows)

\* the threshold the specification names for an operation type
ThresholdOf(cfg, type) ==
    IF type \in {CreateUtxos, SendBtc} THEN cfg.threshold_vanilla ELSE cfg.threshold_colored

\* a respond body that carries what the handler requires of every response:
\* the request field, and a PSBT with an ACK
RespondWellFormed(fields) ==
    LET p == RespondParse(fields)
    IN  /\ p.err = NULL
        /\ p.req # None
        /\ Unwrap(p.req).ack => p.psbt_file # None

\* C1: in every reachable state, whatever post, respond, mark and bump
\* requests were handled, at most one operation has status Pending
C1_AtMostOnePending == Cardinality(OpsWithStatus(Database, Pending)) <= 1

\* C1 witness: an operation is Pending after an earlier one reached a final
\* status and after an address counter was bumped
C1_Witness ==
    /\ Len(operation) = 2
    /\ operation[1].status = Discarded
    /\ operation[2].status = Pending
    /\ next_address_index.external > 0

\* C2: a successful respond on operation k with threshold T leaves it Approved
\* if the ack = true rows (the initiator's included) number at least T, else
\* Discarded if the ack = false rows number more than N - T, else Pending
C2_RespondOutcome ==
    \A c \in Cosigners, k \in Ops : \A fields \in RespondRequests(k) :
        LET out == RespondOutcome(Database, files_dir, config, c, fields, NoFault)
            T == ThresholdOf(config, operation[k].type)
        IN  out.result = Ok =>
                out.db.operation[k].status =
                    IF Cardinality(Answered(out.db, k, TRUE)) >= T THEN Approved
                    ELSE IF Cardinality(Answered(out.db, k, FALSE)) > NumCosigners - T
                         THEN Discarded
                    ELSE Pending

\* C2 witness: responses have discarded one operation and approved another
\* with exactly the threshold's number of NACKs and ACKs
C2_Witness ==
    \E i \in Ops, j \in Ops :
        /\ operation[i].status = Discarded
        /\ Cardinality(Answered(Database, i, FALSE)) =
               NumCosigners - ThresholdOf(config, operation[i].type) + 1
        /\ operation[j].status = Approved
        /\ operation[j].type = SendRgb
        /\ Cardinality(Answered(Database, j, TRUE)) = config.threshold_colored
        /\ config.threshold_colored > 1

\* C3: the status of an operation changes only from Pending to Approved or
\* from Pending to Discarded; an Approved or Discarded operation keeps its
\* status in every later step, and no operation disappears
C3_StatusTransitions ==
    [][/\ Len(operation') >= Len(operation)
       /\ \A i \in Ops :
              operation'[i].status # operation[i].status =>
                  /\ operation[i].status = Pending
                  /\ operation'[i].status \in {Approved, Discarded}]_vars

\* C3 witness: an operation that responses approved or discarded is followed
\* by a later operation that has itself been answered
C3_Witness ==
    /\ Len(operation) = 2
    /\ operation[1].type \notin AUTO_APPROVED_OPS
    /\ operation[1].status \in {Approved, Discarded}
    /\ Answered(Database, 2, FALSE) # {}

\* the case C4 is about: operation k is Pending, c did not initiate it and has
\* not answered it, and k is not the operation after c's last processed one
C4_Case(c, k) ==
    /\ k \in Ops
    /\ operation[k].status = Pending
    /\ operation[k].initiator_idx # c
    /\ \A r \in get_cosigner_op_status_entry(Database, c, k) : r.ack = None
    /\ k # get_last_cosigner_processed_op_idx(Database, c) + 1

\* C4: in that case every well-formed respond by c on k, with or without a
\* failing database call, is rejected with CannotRespondToOperation("operation
\* is not the next one to be processed") and changes no row and no file
C4_NotNextRejected ==
    \A c \in Cosigners, k \in Ops :
        \A fields \in RespondRequests(k), fault \in RespondFaults :
            C4_Case(c, k) /\ RespondWellFormed(fields) =>
                LET out == RespondOutcome(Database, files_dir, config, c, fields, fault)
                IN  /\ out.result = ErrNotNext
                    /\ out.db = Database
                    /\ out.fs = files_dir

\* C4 witness: a cosigner faces a Pending operation while an earlier one is
\* still unprocessed on its side
C4_Witness == \E c \in Cosigners, k \in Ops : C4_Case(c, k)

\* C5: for each cosigner the processed operations form a contiguous range of
\* idx values, and every step that marks an operation processed for a
\* cosigner strictly increases that cosigner's last processed idx
C5_MarkedInOrder ==
    [][\A c \in Cosigners :
           LET before == ProcessedOps(Database, c)
               after == ProcessedOps(Database, c)'
           IN  /\ \A i \in after, j \in after, k \in Ops' :
                      i < k /\ k < j => k \in after
               /\ after # before =>
                      get_last_cosigner_processed_op_idx(Database, c)' >
                          get_last_cosigner_processed_op_idx(Database, c)]_vars

\* C6: whenever a respond by a cosigner on operation k succeeds, that cosigner
\* has marked every operation with a smaller idx processed
C6_RespondAfterAllProcessed ==
    \A c \in Cosigners, k \in Ops : \A fields \in RespondRequests(k) :
        RespondOutcome(Database, files_dir, config, c, fields, NoFault).result = Ok =>
            \A j \in 1..(k - 1) : j \in ProcessedOps(Database, c)

\* the post request of cosigner c has returned; it was sent while no operation
\* was Pending and c had no unprocessed operation, and it asks for an operation
\* that is not auto-approved
C7_Case(c) ==
    /\ task[c].pc = "done"
    /\ task[c].pre
    /\ PostParse(task[c].fields).err = NULL
    /\ Unwrap(PostParse(task[c].fields).operation_type) \notin AUTO_APPROVED_OPS

\* C7: of two such requests by two cosigners that are in flight together, and
\* with no third post_operation, exactly one succeeds and the other returns
\* CannotPostNewOperation("another operation is still pending")
C7_ExactlyOnePostSucceeds ==
    \A a \in Posters, b \in Posters :
        (/\ a # b
         /\ C7_Case(a) /\ task[a].peers = {b}
         /\ C7_Case(b) /\ task[b].peers = {a}) =>
            \/ task[a].result = Ok /\ task[b].result = ErrStillPending
            \/ task[b].result = Ok /\ task[a].result = ErrStillPending

\* C7 witness: two such requests have returned, the second cosigner's being
\* the one that succeeded, after an earlier operation that both had processed
C7_Witness ==
    /\ C7_Case(1) /\ task[1].peers = {2}
    /\ C7_Case(2) /\ task[2].peers = {1}
    /\ task[2].result = Ok
    /\ Len(operation) = 2

\* C8: every operation has exactly one CosignerOpStatus row for each
\* configured cosigner, and no row belongs to an operation that does not
\* exist, also after a post_operation whose transaction failed partway
C8_OneRowPerPair ==
    /\ \A k \in Ops, c \in Cosigners : RowCount(Database, c, k) = 1
    /\ \A r \in StatusRows(Database) : r.operation_idx \in Ops /\ r.cosigner_idx \in Cosigners

\* C8 witness: an operation exists with its rows, and a further post whose
\* second row insert fails is accepted up to its transaction now
C8_Witness ==
    /\ Len(operation) = 1
    /\ \E c \in Posters, fields \in PostRequests :
           PostOutcome(Database, files_dir, c, fields,
                       <<"set_cosigner_op_status", 2>>).result = ErrDatabase

\* the ack and responded_at of the row of cosigner c for operation k
AckOf(db, c, k) ==
    {<<r.ack, r.responded_at>> : r \in get_cosigner_op_status_entry(db, c, k)}

\* C9: a row whose ack is set keeps its ack and responded_at in every later
\* step; a well-formed respond by a cosigner whose row for the operation has
\* its ack set is rejected with CannotRespondToOperation, the initiator's with
\* "cannot respond to your own operation", and changes nothing
C9_AckImmutable ==
    /\ [](\A c \in Cosigners, k \in Ops :
              \A fields \in RespondRequests(k), fault \in RespondFaults :
                  LET out == RespondOutcome(Database, files_dir, config, c, fields, fault)
                  IN  RespondWellFormed(fields) =>
                          /\ c \in (Answered(Database, k, TRUE) \cup
                                       Answered(Database, k, FALSE)) =>
                                 /\ out.result \in CannotRespondToOperation
                                 /\ out.db = Database
                          /\ operation[k].initiator_idx = c =>
                                 out.result = ErrOwnOperation)
    /\ [][\A c \in Cosigners, k \in Ops :
              (\E a \in AckOf(Database, c, k) : a[1] # None) =>
                  AckOf(Database, c, k)' = AckOf(Database, c, k)]_vars

\* C9 witness: a responder has answered an operation that is still Pending, so
\* nothing but the already-responded check stands against a second response
C9_Witness ==
    \E k \in Ops, c \in Cosigners :
        /\ operation[k].status = Pending
        /\ operation[k].initiator_idx # c
        /\ c \in Answered(Database, k, TRUE)

\* the processed_at of the row of cosigner c for operation k
ProcessedAtOf(db, c, k) ==
    {r.processed_at : r \in get_cosigner_op_status_entry(db, c, k)}

\* C10: processed_at changes only from null to a timestamp, in a step that
\* changes nothing else than that one row (the owner's mark), and only while
\* the operation is Approved or Discarded; a mark of a Pending operation or of
\* an already-processed one returns CannotMarkOperationProcessed and changes
\* nothing, and a mark sets no other row than the caller's for that operation
C10_ProcessedAt ==
    /\ [](\A c \in Cosigners, k \in Ops, fault \in MarkFaults :
              LET out == MarkOutcome(Database, files_dir, c, k, fault)
              IN  /\ operation[k].status = Pending \/ k \in ProcessedOps(Database, c) =>
                      /\ out.result \in CannotMarkOperationProcessed
                      /\ out.db = Database
                  /\ \A c2 \in Cosigners, k2 \in Ops :
                      <<c2, k2>> # <<c, k>> =>
                          ProcessedAtOf(out.db, c2, k2) = ProcessedAtOf(Database, c2, k2))
    /\ [][\A c \in Cosigners, k \in Ops :
              ProcessedAtOf(Database, c, k)' # ProcessedAtOf(Database, c, k) =>
                  /\ ProcessedAtOf(Database, c, k) = {None}
                  /\ ProcessedAtOf(Database, c, k)' = {Some(now)}
                  /\ operation[k].status \in {Approved, Discarded}
                  /\ operation' = operation
                  /\ op_file' = op_file
                  /\ \A c2 \in Cosigners, k2 \in Ops :
                         <<c2, k2>> # <<c, k>> =>
                             get_cosigner_op_status_entry(Database, c2, k2)' =
                                 get_cosigner_op_status_entry(Database, c2, k2)]_vars

\* C10 witness: a cosigner has processed a Discarded operation while another
\* operation is Pending
C10_Witness ==
    \E c \in Cosigners :
        /\ Len(operation) = 2
        /\ operation[1].status = Discarded
        /\ 1 \in ProcessedOps(Database, c)
        /\ operation[2].status = Pending

\* the case C11 is about: no operation is Pending and cosigner c has a row,
\* for an operation it initiated or not, whose processed_at is null
C11_Case(c) ==
    /\ OpsWithStatus(Database, Pending) = {}
    /\ \E k \in Ops : k \notin ProcessedOps(Database, c)

\* C11: in that case every post_operation by c, whatever its body, is rejected
\* with CannotPostNewOperation("initiator has unprocessed operations") and
\* creates no row and stores no file
C11_UnprocessedRejected ==
    \A c \in Cosigners, fields \in PostRequests, fault \in PostFaults :
        C11_Case(c) =>
            LET out == PostOutcome(Database, files_dir, c, fields, fault)
            IN  /\ out.result = ErrUnprocessed
                /\ out.db = Database
                /\ out.fs = files_dir

\* C11 witness: no operation is Pending and a cosigner has processed every
\* operation it initiated but not one initiated by another cosigner
C11_Witness ==
    \E c \in Posters :
        /\ C11_Case(c)
        /\ \E k \in Ops : operation[k].initiator_idx = c
        /\ \A k \in Ops : operation[k].initiator_idx = c => k \in ProcessedOps(Database, c)

\* C12 as stated: every well-formed respond on an Approved or Discarded
\* operation is rejected with CannotRespondToOperation("operation is not
\* pending")
C12_AnyResponderNotPending ==
    \A c \in Cosigners, k \in Ops : \A fields \in RespondRequests(k) :
        RespondWellFormed(fields) /\ operation[k].status \in {Approved, Discarded} =>
            RespondOutcome(Database, files_dir, config, c, fields, NoFault).result =
                ErrNotPending

\* C12 amended: a well-formed respond on an Approved or Discarded operation is
\* rejected with "operation is not pending" when it comes from a cosigner
\* other than the initiator and with "cannot respond to your own operation"
\* when it comes from the initiator, and changes nothing; the cosigners that
\* acked and those that nacked an operation never change once it has left
\* Pending
C12_NotPendingRejected ==
    /\ [](\A c \in Cosigners, k \in Ops :
              \A fields \in RespondRequests(k), fault \in RespondFaults :
                  (RespondWellFormed(fields) /\ operation[k].status \in {Approved, Discarded}) =>
                      LET out == RespondOutcome(Database, files_dir, config, c, fields, fault)
                      IN  /\ out.result = IF operation[k].initiator_idx = c
                                          THEN ErrOwnOperation ELSE ErrNotPending
                          /\ out.db = Database
                          /\ out.fs = files_dir)
    /\ [][\A k \in Ops :
              operation[k].status # Pending =>
                  /\ Answered(Database, k, TRUE)' = Answered(Database, k, TRUE)
                  /\ Answered(Database, k, FALSE)' = Answered(Database, k, FALSE)]_vars

\* C12 witness: an operation was approved or discarded by responses while a
\* cosigner who may answer next has not answered it
C12_Witness ==
    \E k \in Ops, c \in Cosigners :
        /\ operation[k].status \in {Approved, Discarded}
        /\ operation[k].type \notin AUTO_APPROVED_OPS
        /\ operation[k].initiator_idx # c
        /\ c \notin Answered(Database, k, TRUE) \cup Answered(Database, k, FALSE)
        /\ k = get_last_cosigner_processed_op_idx(Database, c) + 1

\* C13: no operation is Pending while the number of its ack = true rows, the
\* initiator's included, is at least its threshold
C13_ApprovedAtThreshold ==
    \A k \in Ops :
        operation[k].status = Pending =>
            Cardinality(Answered(Database, k, TRUE)) < ThresholdOf(config, operation[k].type)

\* the view's threshold field for an operation of the given type
ViewThreshold(cfg, type) ==
    get_threshold_for_operation(type, cfg.threshold_vanilla, cfg.threshold_colored)

\* the post bodies of the three auto-approved types
AutoApprovedRequests ==
    {<<TypeField(<<t>>), FileField("file_psbt", BytesA)>> : t \in AUTO_APPROVED_OPS}

\* C15: a successful post of an auto-approved type creates the operation
\* Approved; in every state an operation of such a type is Approved, its view
\* has a null threshold, its only ACK is the initiator's, it has no NACK, and
\* no respond on it succeeds
C15_AutoApproved ==
    /\ \A c \in Posters, fields \in AutoApprovedRequests :
           LET out == PostOutcome(Database, files_dir, c, fields, NoFault)
           IN  out.result = Ok =>
                   /\ Len(out.db.operation) = Len(operation) + 1
                   /\ out.db.operation[out.operation_idx].status = Approved
    /\ \A k \in Ops :
           operation[k].type \in {Issuance, BlindReceive, WitnessReceive} =>
               /\ operation[k].status = Approved
               /\ ViewThreshold(config, operation[k].type) = None
               /\ Answered(Database, k, TRUE) = {operation[k].initiator_idx}
               /\ Answered(Database, k, FALSE) = {}
               /\ \A c \in Cosigners : \A fields \in RespondRequests(k), fault \in RespondFaults :
                      RespondOutcome(Database, files_dir, config, c, fields, fault).result # Ok

\* C15 witness: an auto-approved operation exists that a cosigner other than
\* its initiator has processed, and a further one can be posted
C15_Witness ==
    /\ \E k \in Ops, c \in Cosigners :
           /\ operation[k].type = Issuance
           /\ operation[k].initiator_idx # c
           /\ k \in ProcessedOps(Database, c)
    /\ \E c \in Posters, fields \in AutoApprovedRequests :
           PostOutcome(Database, files_dir, c, fields, NoFault).result = Ok

\* the bytes a body uploads under a field name
Uploaded(fields, name) ==
    {fields[i].bytes : i \in {j \in 1..Len(fields) : fields[j].name = name}}

\* the idx values of the OpFile rows of an operation that hold a file of a
\* type with a content
OpFileIdxOf(db, k, file_type, bytes) ==
    {i \in 1..Len(db.op_file) :
        /\ db.op_file[i].operation_idx = k
        /\ db.op_file[i].type = file_type
        /\ db.op_file[i].file_id = compute_file_id(bytes)}

\* C14: after a successful post by cosigner c the rows of the new operation
\* are: c's row with ack = true, responded_at set and psbt_op_file_idx the idx
\* of the OpFile row of the PSBT c uploaded (null when c uploaded none); every
\* other cosigner's row with ack, responded_at, processed_at and
\* psbt_op_file_idx null
C14_RowsAfterPost ==
    \A c \in Posters, fields \in PostRequestsFiles, fault \in PostFaultsFiles :
        LET out == PostOutcome(Database, files_dir, c, fields, fault)
            k == Len(operation) + 1
            psbt == Uploaded(fields, "file_psbt")
        IN  out.result = Ok =>
                /\ out.operation_idx = k
                /\ \A d \in Cosigners :
                       \E r \in get_cosigner_op_status_entry(out.db, d, k) :
                           /\ get_cosigner_op_status_entry(out.db, d, k) = {r}
                           /\ IF d = c
                              THEN /\ r.ack = Some(TRUE)
                                   /\ r.responded_at # None
                                   /\ IF psbt = {}
                                      THEN r.psbt_op_file_idx = None
                                      ELSE \E b \in psbt :
                                               /\ r.psbt_op_file_idx # None
                                               /\ OpFileIdxOf(out.db, k, Psbt, b)
                                                      = {Unwrap(r.psbt_op_file_idx)}
                              ELSE /\ r.ack = None
                                   /\ r.responded_at = None
                                   /\ r.processed_at = None
                                   /\ r.psbt_op_file_idx = None

\* C14 witness: an operation was posted without a PSBT, and a post with a
\* second file and a PSBT succeeds after it
C14_Witness ==
    /\ \E k \in Ops :
           \E r \in get_cosigner_op_status_entry(Database, operation[k].initiator_idx, k) :
               r.ack = Some(TRUE) /\ r.psbt_op_file_idx = None
    /\ \E c \in Posters, fields \in PostRequestsFiles :
           /\ Len(fields) = 3
           /\ PostOutcome(Database, files_dir, c, fields, NoFault).result = Ok

\* the psbt_op_file_idx and the ack of the row of a cosigner for an operation,
\* None when there is no such row
FieldOf(db, c, k, f) ==
    IF get_cosigner_op_status_entry(db, c, k) = {}
    THEN None
    ELSE (CHOOSE r \in get_cosigner_op_status_entry(db, c, k) : TRUE)[f]

\* C16: no row has ack = false and psbt_op_file_idx set, and a row's
\* psbt_op_file_idx changes only in a step that sets its ack, and sets it to
\* true
C16_PsbtOnlyWithAck ==
    /\ [](\A r \in StatusRows(Database) : r.psbt_op_file_idx # None => r.ack = Some(TRUE))
    /\ [][\A c \in Cosigners, k \in 1..MaxOps :
              FieldOf(Database, c, k, "psbt_op_file_idx")'
                    # FieldOf(Database, c, k, "psbt_op_file_idx") =>
                  /\ FieldOf(Database, c, k, "ack") = None
                  /\ FieldOf(Database, c, k, "ack")' = Some(TRUE)]_vars

\* the file_id values of the OpFile rows
OpFileIds(db) == {db.op_file[i].file_id : i \in 1..Len(db.op_file)}

\* C19: in every state the file_id values of the OpFile rows are exactly the
\* names of the files in the files directory
C19_RowIffFile ==
    OpFileIds(Database) = files_dir

\* C20: every OpFile row refers to a file in the files directory, in every
\* state and in what a post or a respond leaves behind, whatever call fails
C20_RowHasFile ==
    /\ OpFileIds(Database) \subseteq files_dir
    /\ \A c \in Posters, fields \in PostRequestsFiles, fault \in PostFaultsFiles :
           LET out == PostOutcome(Database, files_dir, c, fields, fault)
           IN  OpFileIds(out.db) \subseteq out.fs
    /\ \A c \in Cosigners, k \in OpIdxInputs :
           \A fields \in RespondRequestsFiles(k), fault \in RespondFaultsFiles :
               LET out == RespondOutcome(Database, files_dir, config, c, fields, fault)
               IN  OpFileIds(out.db) \subseteq out.fs

\* C20 witness: two OpFile rows share a file, and an OpFile row was added by
\* a respond
C20_Witness ==
    /\ \E i, j \in 1..Len(op_file) : i # j /\ op_file[i].file_id = op_file[j].file_id
    /\ \E r \in StatusRows(Database), k \in Ops :
           /\ r.operation_idx = k
           /\ r.cosigner_idx # operation[k].initiator_idx
           /\ r.psbt_op_file_idx # None

C18_TasksFinishBeforeExit ==
    server = "exited" => Spawned = {}

\* the contents a body uploads as files
FileContents(fields) ==
    {fields[i].bytes : i \in {j \in 1..Len(fields) : fields[j].name \in FileFieldNames}}

\* the number of files a body uploads with a content
UploadCount(fields, bytes) ==
    Cardinality({i \in 1..Len(fields) :
                    fields[i].name \in FileFieldNames /\ fields[i].bytes = bytes})

\* the number of OpFile rows with a file_id
RowsSharing(db, file_id) ==
    Cardinality({i \in 1..Len(db.op_file) : db.op_file[i].file_id = file_id})

\* a store that succeeds adds one OpFile row per uploaded file, all rows of a
\* content with the same file_id, and one file per content; the file is moved
\* into place once per content that is not stored yet, so a failure of any
\* further move cannot happen
StoredOnce(db, fs, fields, out, outFault, n) ==
    LET new == {b \in FileContents(fields) : compute_file_id(b) \notin fs}
    IN  /\ out.result = Ok =>
               /\ out.fs = fs \cup {compute_file_id(b) : b \in FileContents(fields)}
               /\ \A b \in FileContents(fields) :
                      RowsSharing(out.db, compute_file_id(b))
                          = RowsSharing(db, compute_file_id(b)) + UploadCount(fields, b)
        /\ n > Cardinality(new) => outFault = out

\* C21: storing a content that is already stored, through a post or a
\* respond, by any cosigner, gives the same file_id, adds an OpFile row with
\* that file_id and leaves the one file in place without moving a file onto it
C21_SameContentOneFile ==
    /\ \A b1, b2 \in {BytesA, BytesB} : compute_file_id(b1) = compute_file_id(b2) <=> b1 = b2
    /\ \A c \in Posters, fields \in PostRequestsFiles, n \in 1..3 :
           StoredOnce(Database, files_dir, fields,
                      PostOutcome(Database, files_dir, c, fields, NoFault),
                      PostOutcome(Database, files_dir, c, fields, <<"persist_temp_file", n>>),
                      n)
    /\ \A c \in Cosigners, k \in OpIdxInputs : \A fields \in RespondRequestsFiles(k), n \in 1..3 :
           StoredOnce(Database, files_dir, fields,
                      RespondOutcome(Database, files_dir, config, c, fields, NoFault),
                      RespondOutcome(Database, files_dir, config, c, fields,
                                     <<"persist_temp_file", n>>),
                      n)

\* C21 witness: two operations posted by different cosigners and a response of
\* a third share one stored file, the only one in the directory
C21_Witness ==
    /\ Cardinality(files_dir) = 1
    /\ \E i, j \in 1..Len(op_file) :
           /\ op_file[i].file_id = op_file[j].file_id
           /\ operation[op_file[i].operation_idx].initiator_idx
                  # operation[op_file[j].operation_idx].initiator_idx
    /\ \E r \in StatusRows(Database) :
           /\ r.psbt_op_file_idx # None
           /\ r.cosigner_idx # operation[r.operation_idx].initiator_idx
           /\ RowsSharing(Database, op_file[Unwrap(r.psbt_op_file_idx)].file_id) >= 3

\* the tokens the middleware has to refuse: no bearer token, not verified by
\* the root key, expired, no role, a cosigner without an xpub or with an xpub
\* that is not configured, a watch-only with an xpub, any other role
Refused(token) ==
    \/ token.header = None
    \/ /\ token.header # None
       /\ LET t == Unwrap(token.header)
          IN  \/ t.signature # "root"
              \/ t.expired
              \/ t.role = None
              \/ t.role = Some("cosigner") /\ t.xpub = None
              \/ /\ t.role = Some("cosigner") /\ t.xpub # None
                 /\ Unwrap(t.xpub) \notin {XpubOf(c) : c \in Cosigners}
              \/ t.role = Some("watch-only") /\ t.xpub # None
              \/ t.role \notin {Some("cosigner"), Some("watch-only")}

\* the tokens of the watch-only principal
WatchOnlyTokens ==
    {t \in Tokens : ~Refused(t) /\ Unwrap(t.header).role = Some("watch-only")}

\* C22: the middleware answers Unauthorized exactly for the refused tokens,
\* whatever the path; every other token gets the principal of its role, the
\* cosigner with its xpub and the idx configured for it; and a request with a
\* refused token is answered Unauthorized with nothing changed
C22_AuthOutcome ==
    \A token \in Tokens, path \in Paths :
        LET a == conditional_auth_middleware(token, path)
        IN  /\ a.err = ErrUnauthorized <=> Refused(token)
            /\ a.err \in {NULL, ErrUnauthorized, ErrForbidden}
            /\ a.err # NULL <=> a.user = None
            /\ ~Refused(token) =>
                   LET t == Unwrap(token.header)
                   IN  IF t.role = Some("cosigner")
                       THEN /\ a.err = NULL
                            /\ \E c \in Cosigners :
                                   /\ t.xpub = Some(XpubOf(c))
                                   /\ a.user = Some(Cosigner(XpubOf(c), c))
                       ELSE a.err = NULL => a.user = Some(WatchOnly)
            /\ Refused(token) =>
                   \A req \in AuthRequests :
                       ServeOutcome(Database, files_dir, config, token, path, req, NoFault)
                           = ReadOutcome(Database, files_dir, ErrUnauthorized, None)

\* C22 witness: a response that cosigner 2 can give succeeds with its token
\* and would be refused with an expired one
C22_Witness ==
    \E token \in Tokens, req \in AuthRequests :
        /\ ~Refused(token)
        /\ Unwrap(token.header).xpub = Some(XpubOf(2))
        /\ ServeOutcome(Database, files_dir, config, token, "/respondtooperation", req,
                        NoFault).result = Ok
        /\ ServeOutcome(Database, files_dir, config,
                        [header |-> Some([Unwrap(token.header) EXCEPT !.expired = TRUE])],
                        "/respondtooperation", req, NoFault).result = ErrUnauthorized

\* C23: a watch-only request gets Forbidden on every path outside /info,
\* /getoperationbyidx, /getcurrentaddressindices and /getfile, is answered by
\* the handler on these four, and changes neither the tables nor the files
C23_WatchOnlyReadOnly ==
    \A token \in WatchOnlyTokens, path \in Paths, req \in AuthRequests, fault \in BumpFaults :
        LET out == ServeOutcome(Database, files_dir, config, token, path, req, fault)
        IN  /\ out.db = Database
            /\ out.fs = files_dir
            /\ IF path \in {"/info", "/getoperationbyidx", "/getcurrentaddressindices",
                            "/getfile"}
               THEN out.result \notin {ErrForbidden, ErrUnauthorized, ErrNotFound}
               ELSE out.result = ErrForbidden

\* C23 witness: a watch-only request reads an operation while a bump, a post
\* response and a mark sent by a cosigner would each succeed or have succeeded
C23_Witness ==
    /\ \E token \in WatchOnlyTokens, req \in AuthRequests :
           ServeOutcome(Database, files_dir, config, token, "/getoperationbyidx", req,
                        NoFault).body # None
    /\ \E token \in Tokens \ WatchOnlyTokens, req \in AuthRequests :
           /\ ~Refused(token)
           /\ ServeOutcome(Database, files_dir, config, token, "/bumpaddressindices", req,
                           NoFault).result = Ok
           /\ ServeOutcome(Database, files_dir, config, token, "/respondtooperation", req,
                           NoFault).result = Ok

\* C24: the view of an existing operation is returned; its acked_by is the
\* set of xpubs of the cosigners whose row has ack = true and its nacked_by
\* those with ack = false; the sets are disjoint; the initiator is in
\* acked_by; for a cosigner viewer my_response and processed_at are the ack
\* and the processed_at of the viewer's own row
C24_ViewSets ==
    \A k \in Ops, viewer \in {None} \cup {Some(c) : c \in Cosigners} :
        LET v == get_operation_by_idx_with_files(Database, files_dir, config, k, viewer)
            b == Unwrap(v.body)
        IN  /\ v.result = Ok
            /\ v.body # None
            /\ b.acked_by = {XpubOf(c) : c \in Answered(Database, k, TRUE)}
            /\ b.nacked_by = {XpubOf(c) : c \in Answered(Database, k, FALSE)}
            /\ b.acked_by \cap b.nacked_by = {}
            /\ XpubOf(operation[k].initiator_idx) \in b.acked_by
            /\ viewer # None =>
                   \A r \in StatusRows(Database) :
                       r.cosigner_idx = Unwrap(viewer) /\ r.operation_idx = k =>
                           b.my_response = r.ack /\ b.processed_at = r.processed_at

\* C24 witness: an operation has an ACK and a NACK of cosigners other than
\* its initiator, one of whom has processed it
C24_Witness ==
    \E k \in Ops, c, d \in Cosigners :
        /\ operation[k].initiator_idx \notin {c, d}
        /\ c \in Answered(Database, k, TRUE)
        /\ d \in Answered(Database, k, FALSE)
        /\ k \in ProcessedOps(Database, d)

\* the tables with processed_at set in the rows of the pairs P only
WithProcessedAt(db, P) ==
    [db EXCEPT !.cosigner_op_status =
        SetToBag({[r EXCEPT !.processed_at =
                       IF <<r.cosigner_idx, r.operation_idx>> \in P THEN Some(now) ELSE None] :
                     r \in StatusRows(db)})]

\* C25: the response a watch-only request gets from /getoperationbyidx has no
\* my_response and no processed_at, and is the same whatever the processed_at
\* values of the rows are
C25_WatchOnlyView ==
    \A token \in WatchOnlyTokens, req \in AuthRequests :
        LET out == ServeOutcome(Database, files_dir, config, token, "/getoperationbyidx",
                                req, NoFault)
        IN  /\ out.body # None =>
                   /\ Unwrap(out.body).my_response = None
                   /\ Unwrap(out.body).processed_at = None
            /\ \A P \in SUBSET (Cosigners \X (1..MaxOpsAuth)) :
                   ServeOutcome(WithProcessedAt(Database, P), files_dir, config, token,
                                "/getoperationbyidx", req, NoFault).body = out.body

\* C25 witness: a watch-only request views an operation that some cosigners
\* have processed and others have not
C25_Witness ==
    /\ \E token \in WatchOnlyTokens, req \in AuthRequests :
           ServeOutcome(Database, files_dir, config, token, "/getoperationbyidx", req,
                        NoFault).body # None
    /\ \E k \in Ops, c, d \in Cosigners :
           /\ k \in ProcessedOps(Database, c)
           /\ k \notin ProcessedOps(Database, d)

\* C26: a counter changes only when a bump of it commits; that bump returns
\* as first the value the counter has just before, which from 0 on is the sum
\* of the counts committed earlier, and leaves the counter at first + count, so
\* the ranges [first, first + count) follow each other without gap or
\* overlap; get_current_address_indices reports the counter minus one, and
\* null while the counter is 0
C26_BumpRanges ==
    /\ [](\A internal \in BOOLEAN :
             LET counter == CounterOf(next_address_index, internal)
                 current == get_current_address_indices(Database)
             IN  (IF internal THEN current.internal ELSE current.external)
                     = IF counter = 0 THEN None ELSE Some(counter - 1))
    /\ [][\A internal \in BOOLEAN :
              CounterOf(next_address_index, internal)' # CounterOf(next_address_index, internal)
                  => \E c \in Clients :
                         /\ task[c].pc = "read" /\ task'[c].pc = "idle"
                         /\ task[c].req.internal = internal
                         /\ task[c].req.count >= 1
                         /\ BumpOutcome([Database EXCEPT !.next_address_index = task[c].index],
                                        files_dir, task[c].req, NoFault).first
                                = CounterOf(next_address_index, internal)
                         /\ CounterOf(next_address_index, internal)'
                                = CounterOf(next_address_index, internal) + task[c].req.count]_vars

\* C26 witness: after earlier bumps of a counter, one bump of it has read the
\* row while another one of the same counter waits for the lock
C26_Witness ==
    \E c, d \in Clients :
        /\ task[c].pc = "read" /\ task[c].req.count = 2
        /\ task[d].pc = "waiting" /\ task[d].req.count = 1
        /\ task[c].req.internal = task[d].req.internal
        /\ CounterOf(next_address_index, task[c].req.internal) \in 1..MaxAddrBump

\* C27: a bump with count 0 returns InvalidCount and leaves the tables as
\* they are, as a call and as a step of a request; a bump that succeeds has a
\* count of at least 1 and moves the counter past first
C27_ZeroCount ==
    /\ [](\A req \in BumpRequestsSeq, fault \in BumpFaults :
             LET out == BumpOutcome(Database, files_dir, req, fault)
             IN  /\ req.count = 0 => out.result = ErrInvalidCount /\ out.db = Database
                 /\ out.result = Ok =>
                        /\ req.count >= 1
                        /\ CounterOf(out.db.next_address_index, req.internal) > out.first)
    /\ [][\A c \in Clients :
              task[c].pc = "locked" /\ task[c].req.count = 0 /\ task'[c] # task[c] =>
                  /\ task'[c] = IdleTask
                  /\ next_address_index' = next_address_index]_vars

\* C27 witness: a request with count 0 holds the lock after the counter it
\* names has been bumped
C27_Witness ==
    \E c \in Clients :
        /\ task[c].pc = "locked"
        /\ task[c].req.count = 0
        /\ CounterOf(next_address_index, task[c].req.internal) > 0

\* C28: a bump whose count would take the counter past the largest value of
\* its type returns the overflow error and leaves the tables as they are; no
\* counter exceeds that value and no step decreases a counter
C28_NoOverflow ==
    /\ [](/\ next_address_index.internal \in 0..U32_MAX
          /\ next_address_index.external \in 0..U32_MAX
          /\ \A req \in BumpRequestsSeq, fault \in BumpFaults :
                 LET out == BumpOutcome(Database, files_dir, req, fault)
                 IN  /\ req.count >= 1
                     /\ CounterOf(next_address_index, req.internal) + req.count > U32_MAX
                     => /\ out.result = ErrUnexpectedOverflow
                        /\ out.db = Database)
    /\ [][/\ next_address_index'.internal >= next_address_index.internal
          /\ next_address_index'.external >= next_address_index.external]_vars

\* C28 witness: a counter has reached the largest value of its type and a
\* bump of it has read the row
C28_Witness ==
    \E c \in Clients :
        /\ task[c].pc = "read"
        /\ task[c].req.count >= 1
        /\ CounterOf(next_address_index, task[c].req.internal) = U32_MAX

\* C29: a bump leaves the other counter, the Operation, OpFile and
\* CosignerOpStatus tables and the files as they are, and a post, a respond
\* or a mark leaves both counters as they are
C29_CountersIndependent ==
    /\ \A req \in BumpRequestsSeq, fault \in BumpFaults :
           LET out == BumpOutcome(Database, files_dir, req, fault)
           IN  /\ out.db.operation = operation
               /\ out.db.op_file = op_file
               /\ out.db.cosigner_op_status = cosigner_op_status
               /\ out.fs = files_dir
               /\ CounterOf(out.db.next_address_index, ~req.internal)
                      = CounterOf(next_address_index, ~req.internal)
    /\ \A token \in Tokens, req \in AuthRequests, fault \in RespondFaults :
           \A path \in {"/postoperation", "/respondtooperation", "/markoperationprocessed"} :
               ServeOutcome(Database, files_dir, config, token, path, req, fault)
                   .db.next_address_index = next_address_index

\* C29 witness: both counters have been bumped, an operation exists, and a
\* response and a bump would succeed
C29_Witness ==
    /\ next_address_index.internal > 0
    /\ Len(operation) > 0
    /\ \E req \in BumpRequestsSeq :
           BumpOutcome(Database, files_dir, req, NoFault).result = Ok
    /\ \E token \in Tokens, req \in AuthRequests :
           ServeOutcome(Database, files_dir, config, token, "/respondtooperation", req,
                        NoFault).result = Ok

\* C30: whenever start_daemon has returned successfully - on the first start
\* or on a restart, also a restart after a start that stopped in the middle
\* of the seeding - the database holds exactly one Config row and exactly one
\* NextAddressIndex row.
C30_StartedHasBothRows ==
    server = "running" => seed.config = 1 /\ seed.next_address_index = 1

\* the configured thresholds differ from the stored Config row
ThresholdsDiffer ==
    \/ app_params.threshold_colored # config.threshold_colored
    \/ app_params.threshold_vanilla # config.threshold_vanilla

\* start_daemon is about to run its "already started" branch on a database
\* a first start has seeded with a Config row and cosigner rows
Restarting == server = "starting" /\ seed.config > 0 /\ seed.cosigner # {}

\* C31 as stated: a restart whose configuration names a different cosigner
\* set fails with CannotChangeCosigners, and one with a different threshold
\* fails with InvalidThreshold.
C31_DifferentSetRefused ==
    Restarting =>
        LET out == StartedOutcome(config, seed.cosigner, app_params)
        IN  /\ app_params.cosigner_xpubs # seed.cosigner => out = ErrCannotChangeCosigners
            /\ ThresholdsDiffer => out = ErrInvalidThreshold

\* C31, amended: once the Config row and the cosigner rows exist, no step
\* changes the stored thresholds or the stored cosigner set; a restart with a
\* different threshold fails with InvalidThreshold, one with the same
\* thresholds and a different cosigner set fails with CannotChangeCosigners;
\* a restart step modifies no table, and it returns the state only when the
\* configuration equals what is stored.
C31_StoredConfigurationFixed ==
    /\ [](Restarting =>
            LET out == StartedOutcome(config, seed.cosigner, app_params)
            IN  /\ ThresholdsDiffer => out = ErrInvalidThreshold
                /\ (~ThresholdsDiffer /\ app_params.cosigner_xpubs # seed.cosigner) =>
                       out = ErrCannotChangeCosigners)
    /\ [][/\ seed.config > 0 => config' = config /\ seed.config' = seed.config
          /\ seed.cosigner # {} => seed.cosigner' = seed.cosigner
          /\ (server = "starting" /\ seed.config > 0) =>
                 /\ seed' = seed
                 /\ Database' = Database
                 /\ server' = "running" =>
                        ~ThresholdsDiffer /\ app_params.cosigner_xpubs = seed.cosigner]_vars

\* a daemon that has served requests is restarted with another cosigner set,
\* and one is restarted with another threshold
C31_Witness ==
    /\ Restarting
    /\ Len(operation) > 0
    /\ seed.next_address_index = 1
    /\ app_params.cosigner_xpubs # seed.cosigner
    /\ ~ThresholdsDiffer

\* operation_type contents that are not a single byte in 1..7: an empty
\* field, a byte outside the range, and two bytes
BadTypeBytes == {<<>>, <<0>>, <<8>>, <<CreateUtxos, 8>>, <<8, CreateUtxos>>}

\* C32: a post_operation whose operation_type field is anything other than a
\* single byte in 1..7 is answered with InvalidOperationType and creates no
\* Operation, OpFile or CosignerOpStatus row (the post being one that passes
\* the two admission checks).
C32_BadTypeRejected ==
    \A c \in Posters, bytes \in BadTypeBytes :
        PostAllowed(Database, c) = NULL =>
            LET out == PostOutcome(Database, files_dir, c,
                                   <<TypeField(bytes), FileField("file_psbt", BytesA)>>,
                                   NoFault)
            IN  out.result = ErrInvalidOperationType /\ out.db = Database

\* the clients whose handler is between its first database read and its return
Reading == {c \in Clients : task[c].pc = "reading"}

\* C33: at most one mutating handler is at any time between its first
\* database read and its commit or error return: a handler holds the write
\* lock from before that read until it returns, the tables it read are still
\* the tables when it commits, and its return frees the lock; the tables
\* change only in the return of the handler that holds the lock.
C33_OneWriterAtATime ==
    /\ [](/\ Cardinality(Reading) <= 1
          /\ \A c \in Clients :
                 /\ task[c].pc \in {"locked", "reading"} => write_lock = c
                 /\ task[c].pc = "reading" => task[c].seen = Database)
    /\ [][/\ \A c \in Clients :
                 /\ (task[c].pc # "reading" /\ task'[c].pc = "reading") =>
                        write_lock = c /\ write_lock' = c
                 /\ (task[c].pc = "reading" /\ task'[c].pc # "reading") =>
                        write_lock' = 0
          /\ Database' # Database =>
                 \E c \in Reading : write_lock = c /\ task'[c].pc = "idle"]_vars

\* a respond is between its read and its commit while a bump waits
C33_Witness ==
    \E c, d \in Clients :
        /\ task[c].pc = "reading" /\ task[c].req.kind = "respond"
        /\ task[d].pc = "waiting" /\ task[d].req.kind = "bump"
        /\ Len(operation) > 0

\* C34: a get_operation_by_idx that runs concurrently with the
\* respond_to_operation that crosses the threshold never returns a view that
\* lists that response in acked_by or nacked_by while still reporting the
\* status Pending: a view with status Pending has fewer ACKs than the
\* threshold T and at most N - T NACKs.
C34_ViewStatusAgreesWithTallies ==
    \A c \in Clients :
        (task[c].pc = "viewed" /\ task[c].view.body # None) =>
            LET v == Unwrap(task[c].view.body)
            IN  v.status = Pending =>
                    /\ Cardinality(v.acked_by) < Unwrap(v.threshold)
                    /\ Cardinality(v.nacked_by) <= NumCosigners - Unwrap(v.threshold)

\* C35: operations get strictly increasing idx values in the order their
\* posts commit (a committed post adds one operation, whose idx is above
\* every existing one, and no step removes or renumbers an operation), and
\* a Pending operation is the one with the highest idx: every operation with
\* a lower idx than a Pending one is Approved or Discarded.
C35_PendingIsLast ==
    /\ [](\A k \in Ops :
              operation[k].status = Pending =>
                  /\ Some(k) = get_last_operation_idx(Database)
                  /\ \A j \in 1..(k - 1) : operation[j].status \in {Approved, Discarded})
    /\ [][/\ Len(operation') \in {Len(operation), Len(operation) + 1}
          /\ \A k \in Ops :
                 /\ operation'[k].initiator_idx = operation[k].initiator_idx
                 /\ operation'[k].type = operation[k].type
                 /\ operation'[k].created_at = operation[k].created_at]_vars

\* a second operation is Pending after the first one was decided
C35_Witness ==
    /\ Len(operation) = 2
    /\ operation[2].status = Pending
    /\ operation[1].status = Discarded

\* the numbers of ACKs and NACKs operation k holds
AckCount(k) == Cardinality(Answered(Database, k, TRUE))

NackCount(k) == Cardinality(Answered(Database, k, FALSE))

\* C36: the stored status of a decided operation agrees with its tallies.
\* With T the threshold of its type and N the number of cosigners: an
\* Approved operation of a type that is not auto-approved has at least T ACKs
\* and at most N - T NACKs, a Discarded operation has more than N - T NACKs
\* and fewer than T ACKs, and no operation has both at least T ACKs and more
\* than N - T NACKs.
C36_StatusAgreesWithTallies ==
    \A k \in Ops :
        LET T == ThresholdOf(config, operation[k].type)
        IN  /\ (operation[k].status = Approved /\ operation[k].type \notin AUTO_APPROVED_OPS) =>
                   AckCount(k) >= T /\ NackCount(k) <= NumCosigners - T
            /\ operation[k].status = Discarded =>
                   NackCount(k) > NumCosigners - T /\ AckCount(k) < T
            /\ ~(AckCount(k) >= T /\ NackCount(k) > NumCosigners - T)

\* an operation was approved with a NACK among its answers, and another one
\* was discarded
C36_Witness ==
    \E j, k \in Ops :
        /\ operation[j].status = Approved /\ operation[j].type \notin AUTO_APPROVED_OPS
        /\ NackCount(j) > 0
        /\ operation[k].status = Discarded

\* the cosigners other than its initiator that have answered operation k
Responders(k) ==
    (Answered(Database, k, TRUE) \cup Answered(Database, k, FALSE))
        \ {operation[k].initiator_idx}

\* C37: while the cosigners keep sending their marks and responses, every
\* Pending operation eventually becomes Approved or Discarded, and no
\* operation is Pending once all N - 1 cosigners other than its initiator
\* have responded to it.
C37_PendingIsDecided ==
    /\ \A k \in 1..MaxOps :
           (k \in Ops /\ operation[k].status = Pending)
               ~> (k \in Ops /\ operation[k].status \in {Approved, Discarded})
    /\ [](\A k \in Ops :
              Cardinality(Responders(k)) = NumCosigners - 1 =>
                  operation[k].status # Pending)

\* an operation was decided by the response of the last of the N - 1
\* cosigners
C37_Witness ==
    \E k \in Ops :
        /\ Cardinality(Responders(k)) = NumCosigners - 1
        /\ operation[k].status \in {Approved, Discarded}
        /\ operation[k].type \notin AUTO_APPROVED_OPS

\* cosigner c marks the operations from k on that it has not marked yet, in
\* idx order; ok tells whether every one of these marks was accepted
RECURSIVE MarkOwn(_, _, _, _)
MarkOwn(db, c, k, ok) ==
    IF k > Len(db.operation) THEN [ok |-> ok, db |-> db]
    ELSE IF k \in ProcessedOps(db, c) THEN MarkOwn(db, c, k + 1, ok)
    ELSE LET out == MarkOutcome(db, files_dir, c, k, NoFault)
         IN  MarkOwn(out.db, c, k + 1, ok /\ out.result = Ok)

\* C38: once no operation is Pending, any cosigner gets a new
\* post_operation accepted using only its own requests: its marks of the
\* operations it has not marked are all accepted, and after them its post
\* passes both admission checks and is accepted, whatever the other
\* cosigners have marked or answered.
C38_OwnMarksUnblockPost ==
    \A c \in Cosigners :
        ~has_pending_operation(Database) =>
            LET m == MarkOwn(Database, c, 1, TRUE)
            IN  /\ m.ok
                /\ PostAllowed(m.db, c) = NULL
                /\ \A fields \in PostRequestsSeq :
                       PostOutcome(m.db, files_dir, c, fields, NoFault).result = Ok

\* a cosigner posted a second operation after marking the first, which
\* another cosigner has neither answered nor marked
C38_Witness ==
    /\ Len(operation) = 2
    /\ 1 \in ProcessedOps(Database, operation[2].initiator_idx)
    /\ \E d \in Cosigners :
           /\ d \notin Answered(Database, 1, TRUE) \cup Answered(Database, 1, FALSE)
           /\ 1 \notin ProcessedOps(Database, d)

\* C39: every mutating request that waits for the write lock eventually
\* acquires it, since every holder releases the lock on every path out of
\* its critical section.
C39_WaiterAcquires ==
    \A c \in Clients : (task[c].pc = "waiting") ~> (task[c].pc = "locked")

\* the OpFile rows of operation k
OpFilesOf(k) == {i \in 1..Len(op_file) : op_file[i].operation_idx = k}

\* the cosigner that uploaded OpFile row i of operation k: the responder
\* whose status row names it as its PSBT, else the initiator
UploaderOf(k, i) ==
    LET rows == {r \in status_entries_with_cosigner(Database, k) :
                    /\ r.cosigner_idx # operation[k].initiator_idx
                    /\ r.psbt_op_file_idx = Some(i)}
    IN  IF rows = {} THEN operation[k].initiator_idx
        ELSE (CHOOSE r \in rows : TRUE).cosigner_idx

\* C40: in the operation view each OpFile row of the operation appears
\* exactly once in files, with posted_by_xpub naming the cosigner that
\* uploaded it: files has one entry per OpFile row, and for every cosigner
\* the entries it is named on are as many as the rows it uploaded.
C40_FilesOncePerRow ==
    \A k \in Ops :
        LET files == ViewFiles(Database, k)
        IN  /\ Len(files) = Cardinality(OpFilesOf(k))
            /\ \A c \in Cosigners :
                   Cardinality({p \in DOMAIN files : files[p].posted_by_xpub = XpubOf(c)})
                       = Cardinality({i \in OpFilesOf(k) : UploaderOf(k, i) = c})

====
